---- MODULE Spec2Model ----
(***************************************************************************)
(* Model of the Braintree transaction automation (server.js): the record   *)
(* store helpers, the stage race, the status poller and the row loop of    *)
(* main().                                                                  *)
(*                                                                          *)
(* Strings are sequences of one-character strings, so that trim(),         *)
(* toLowerCase() and replace(/\D+/g, '') are computed, not assumed.        *)
(* Time is counted in ticks of 1000 ms (the poll interval of               *)
(* waitForStatusText).                                                      *)
(***************************************************************************)
EXTENDS Integers, Sequences, FiniteSets, TLC

(***************************************************************************)
(* Bounds of the model.                                                     *)
(***************************************************************************)
\* largest number of data rows of the input sheet
MaxRows == 2
\* number of runs of the orchestrator over the same file
MaxRuns == 2
\* STATUS_WAIT_TIMEOUT_MS, scaled to ticks
STATUS_WAIT_TIMEOUT_MS == 2
\* the timeoutMs handed to raceStages, scaled to ticks
RaceTimeout == 2
\* largest number of stages handed to raceStages
MaxStages == 2
\* how many ticks late a timer of the runtime fires at most
TimerLateness == 1

(***************************************************************************)
(* Program constants (times in ticks).                                      *)
(***************************************************************************)
\* sleep(1000) between two polls of waitForStatusText
POLL_SLEEP == 1
\* sleep(2000) before the second waitForStatusText
RETRY_SLEEP == 2
\* cvvDigitsEarly.length < 3
MIN_CVV_DIGITS == 3

\* the lengths the card fragments are cut to
FIRST4_LEN == 4

LAST12_LEN == 12

(***************************************************************************)
(* Strings.                                                                 *)
(***************************************************************************)
Digits == {"0", "1", "2", "3", "4", "5", "6", "7", "8", "9"}

Whitespace == {" ", "\t", "\n"}

UpperCase == <<"A", "B", "C", "D", "E", "F", "G", "H", "I", "J", "K", "L", "M",
               "N", "O", "P", "Q", "R", "S", "T", "U", "V", "W", "X", "Y", "Z">>

LowerCase == <<"a", "b", "c", "d", "e", "f", "g", "h", "i", "j", "k", "l", "m",
               "n", "o", "p", "q", "r", "s", "t", "u", "v", "w", "x", "y", "z">>

IsDigit(c) == c \in Digits

IsSpace(c) == c \in Whitespace

lowerOf ==
    [c \in {UpperCase[i] : i \in 1..Len(UpperCase)} |->
        LowerCase[CHOOSE i \in 1..Len(UpperCase) : UpperCase[i] = c]]

toLowerCaseChar(c) == IF c \in DOMAIN lowerOf THEN lowerOf[c] ELSE c

\* String.prototype.toLowerCase
toLowerCase(s) == [i \in 1..Len(s) |-> toLowerCaseChar(s[i])]

RECURSIVE trimStart(_)
trimStart(s) ==
    IF s = <<>> THEN <<>>
    ELSE IF IsSpace(Head(s)) THEN trimStart(Tail(s)) ELSE s

RECURSIVE trimEnd(_)
trimEnd(s) ==
    IF s = <<>> THEN <<>>
    ELSE IF IsSpace(s[Len(s)]) THEN trimEnd(SubSeq(s, 1, Len(s) - 1)) ELSE s

\* String.prototype.trim
trim(s) == trimEnd(trimStart(s))

\* s.replace(/\D+/g, '')
stripNonDigits(s) == SelectSeq(s, IsDigit)

\* s.replace(/\s+/g, ' '): every run of whitespace becomes one space
RECURSIVE collapseSpaces(_)
collapseSpaces(s) ==
    IF s = <<>> THEN <<>>
    ELSE IF IsSpace(Head(s))
         THEN <<" ">> \o collapseSpaces(trimStart(Tail(s)))
         ELSE <<Head(s)>> \o collapseSpaces(Tail(s))

\* normalizeKey = (s) => String(s || '').trim().toLowerCase().replace(/\s+/g, ' ')
normalizeKey(s) == collapseSpaces(toLowerCase(trim(s)))

(***************************************************************************)
(* Header texts and cell values used by the inputs.                         *)
(***************************************************************************)
K_STATUS == <<"S", "T", "A", "T", "U", "S">>

K_Status == <<"S", "t", "a", "t", "u", "s">>

K_status == <<"s", "t", "a", "t", "u", "s">>

K_StatuS == <<"S", "t", "a", "t", "u", "S">>

K_CVV == <<"C", "V", "V">>

K_SecurityCode == <<"S", "e", "c", "u", "r", "i", "t", "y", " ", "C", "o", "d", "e">>

K_CVV2 == <<"C", "V", "V", "2">>

K_cvvPadded == <<" ", "c", "v", "v", " ">>

EMPTY == <<>>

V_blank == <<" ">>

V_ok == <<"o", "k">>

V_okPadded == <<" ", "o", "k", " ">>

V_12 == <<"1", "-", "2">>

V_123 == <<"1", "2", "3">>

(***************************************************************************)
(* The record store: one sheet, a header row and the data rows under it.   *)
(* A cell that is absent and a cell holding '' read the same (defval: ''), *)
(* so every data row carries one value per header cell.                    *)
(***************************************************************************)
Max(S) == CHOOSE x \in S : \A y \in S : y <= x

Min(S) == CHOOSE x \in S : \A y \in S : x <= y

\* xlsx.utils.sheet_to_json(ws, { defval: '' }): one object per data row, its
\* keys the header texts in column order; a row is the sequence of its
\* <<key, value>> pairs.
readAllRowsFromExcel(sh) ==
    [r \in 1..Len(sh.data) |->
        [c \in 1..Len(sh.hdr) |-> <<sh.hdr[c], sh.data[r][c]>>]]

\* Object.prototype.hasOwnProperty.call(row, h)
hasOwnProperty(row, h) == \E c \in 1..Len(row) : row[c][1] = h

\* row[h]
prop(row, h) == row[CHOOSE c \in 1..Len(row) : row[c][1] = h][2]

\* (row.STATUS ?? row.Status ?? row.status ?? '').toString().trim()
statusCell(row) ==
    trim(IF hasOwnProperty(row, K_STATUS) THEN prop(row, K_STATUS)
         ELSE IF hasOwnProperty(row, K_Status) THEN prop(row, K_Status)
         ELSE IF hasOwnProperty(row, K_status) THEN prop(row, K_status)
         ELSE EMPTY)

\* normalizedRow[nk]: the reduce over Object.keys(row) lets a later key win;
\* an absent key reads undefined, which the callers treat like ''
normalizedRow(row, nk) ==
    LET cs == {c \in 1..Len(row) : normalizeKey(row[c][1]) = nk}
    IN  IF cs = {} THEN EMPTY ELSE trim(row[Max(cs)][2])

\* for (const h of headers) { if (hasOwnProperty(row, h)) { v = trim(row[h]); if (v) return v; } }
RECURSIVE exactLookup(_, _)
exactLookup(row, headers) ==
    IF headers = <<>> THEN EMPTY
    ELSE LET v == IF hasOwnProperty(row, Head(headers))
                  THEN trim(prop(row, Head(headers))) ELSE EMPTY
         IN  IF v # EMPTY THEN v ELSE exactLookup(row, Tail(headers))

\* for (const h of headers) { const v = normalizedRow[normalizeKey(h)]; if (v) return v; }
RECURSIVE normalizedLookup(_, _)
normalizedLookup(row, headers) ==
    IF headers = <<>> THEN EMPTY
    ELSE LET v == normalizedRow(row, normalizeKey(Head(headers)))
         IN  IF v # EMPTY THEN v ELSE normalizedLookup(row, Tail(headers))

\* valueByHeaders: the exact header names first, then the normalized ones
valueByHeaders(row, headers) ==
    LET v == exactLookup(row, headers)
    IN  IF v # EMPTY THEN v ELSE normalizedLookup(row, headers)

CVV_HEADERS == <<K_CVV, K_SecurityCode, K_CVV2>>

\* cvvDigitsEarly
cvvDigitsEarly(row) == stripNonDigits(valueByHeaders(row, CVV_HEADERS))

\* if (statusCell) { ... continue; }
hasStatus_mut(row) ==
    trim(IF hasOwnProperty(row, K_STATUS) THEN prop(row, K_STATUS) ELSE EMPTY) # EMPTY

hasStatus(row) == statusCell(row) # EMPTY

\* if (cvvDigitsEarly.length < 3) { ... continue; }
cvvTooShort_mut(row) == Len(valueByHeaders(row, CVV_HEADERS)) < MIN_CVV_DIGITS

cvvTooShort(row) == Len(cvvDigitsEarly(row)) < MIN_CVV_DIGITS

\* the header cell writeStatusToExcel takes for the status column:
\* String(cell.v).trim().toLowerCase() === 'status'
isStatusHeader(h) == toLowerCase(trim(h)) = K_status

\* the columns whose header writeStatusToExcel matches
statusCols(sh) == {c \in 1..Len(sh.hdr) : isStatusHeader(sh.hdr[c])}

\* const targetRow = headerRow + 1 + rowIndexZeroBased, as an index into data
targetRow(rowIndexZeroBased) == 1 + rowIndexZeroBased

\* statusCol = range.e.c + 1
newStatusCol_mut(sh) == Len(sh.hdr)

newStatusCol(sh) == Len(sh.hdr) + 1

writeStatusToExcel(sh, rowIndexZeroBased, statusValue) ==
    LET found     == statusCols(sh) # {}
        statusCol == IF found THEN Min(statusCols(sh)) ELSE newStatusCol(sh)
        hdr1      == IF found THEN sh.hdr
                     ELSE [c \in 1..Max({Len(sh.hdr), statusCol}) |->
                             IF c = statusCol THEN K_STATUS ELSE sh.hdr[c]]
        t         == targetRow(rowIndexZeroBased)
        nrows     == IF t > Len(sh.data) THEN t ELSE Len(sh.data)
        old(r, c) == IF r <= Len(sh.data) /\ c <= Len(sh.hdr)
                     THEN sh.data[r][c] ELSE EMPTY
    IN  [hdr  |-> hdr1,
         data |-> [r \in 1..nrows |->
                     [c \in 1..Len(hdr1) |->
                        IF r = t /\ c = statusCol THEN statusValue ELSE old(r, c)]]]

\* the value the store holds for data row r in the column writeStatusToExcel
\* matches ('' when there is no such column yet)
storedStatus(sh, r) ==
    IF statusCols(sh) = {} \/ r > Len(sh.data) THEN EMPTY
    ELSE sh.data[r][Min(statusCols(sh))]

(***************************************************************************)
(* Input sheets.                                                            *)
(***************************************************************************)
StatusValues == {EMPTY, V_blank, V_ok}

CvvValues == {V_12, V_123}

\* no status column; a CVV found by a normalized header and a still empty
\* status column whose header only writeStatusToExcel matches; a CVV under a
\* second alias, with a status header both sides know
HeaderLayouts ==
    { <<K_CVV>>,
      <<K_cvvPadded, K_StatuS>>,
      <<K_CVV, K_SecurityCode, K_Status>> }

\* the values the cell of column c takes in the inputs
CellValues(hdr, c) ==
    IF Len(hdr) = 3
    THEN (IF isStatusHeader(hdr[c]) THEN StatusValues
          ELSE IF hdr[c] = K_CVV THEN {EMPTY, V_12} ELSE {V_123})
    ELSE (IF isStatusHeader(hdr[c]) THEN {EMPTY} ELSE CvvValues)

RowsOf(hdr) ==
    {row \in [1..Len(hdr) -> StatusValues \cup CvvValues] :
        \A c \in 1..Len(hdr) : row[c] \in CellValues(hdr, c)}

SheetsOf(hdr) ==
    {[hdr |-> hdr, data |-> d] : d \in UNION {[1..n -> RowsOf(hdr)] : n \in 1..MaxRows}}

Sheets == UNION {SheetsOf(hdr) : hdr \in HeaderLayouts}

(***************************************************************************)
(* State.                                                                   *)
(***************************************************************************)
VARIABLES
    sheet,        \* the input file on disk
    run,          \* number of the current run of the orchestrator over that file
    REVIEW_MODE,  \* review (fill, then pause) or auto-submit
    pc,           \* position of main()
    browser,      \* "none", "open" or "closed"
    pageUsed,     \* a call on the page (the remote document) was issued in this run
    exitCode,     \* the exit code main() leaves with
    firstStage,   \* the stage raceStages named after login, until the dashboard
                  \* is confirmed
    rows,         \* the rows read at the start of the run
    idx,          \* the loop variable of the row loop (0-based)
    statusText,   \* the status captured for the current row
    clock,        \* Date.now() during the status capture of the current row, in
                  \* ticks since the capture began (0 outside of it)
    start,        \* the start of the waitForStatusText in progress
    polled,       \* the text its last page.evaluate gave ('' when it rejected)
    wstLog,       \* the finished waitForStatusText invocations of the current row
    outcome,      \* outcome of every row in this run
    touched,      \* rows for which a page action was issued in this run
    submitted,    \* rows whose submit script ran in the document in this run
    written,      \* rows for which writeStatusToExcel succeeded in this run
    thrown,       \* the step whose rejection ended the try block of main(), or "none"
    guard,        \* the Enter and submit guard was installed for the current row
    mwait,        \* results of the merchant-account waits of the current row, kept
                  \* until its fill starts
    fieldTouched, \* a focus, click or type on a form field was issued for the current row
    confirmed,    \* how the new-transaction page of the current row was confirmed
                  \* ("body" marker or "heading" text), kept until its fill starts
    submission,   \* what the submit script of the current row found and did in the
                  \* document, kept until the result page is confirmed
    stages,       \* raceStages: the stages handed over
    cond,         \* raceStages: which stage's condition holds in the document
    watcher,      \* raceStages: state of each stage's waitForFunction promise
    raceResult,   \* raceStages: how the Promise.race settled
    elapsed,      \* raceStages: ticks since the call
    firstTrue,    \* raceStages: the stage whose condition was seen true first
    first4Raw,    \* card fill: the value found under the first-4 headers
    last12Raw,    \* card fill: the value found under the last-12 headers
    field,        \* card fill: the value of the card-number input in the document
    typings,      \* card fill: the texts handed to page.type for that input
    typed,        \* card fill: what the read-back page.$eval gave
    cpc,          \* card fill: position in the card-number block
    BRAND,        \* fill: the brand of the run, "agoda" or "booking"
    formValues,   \* fill: the values main() derived from the record and the brand
    fpos,         \* fill: the field block the fill is at (index into FieldOrder)
    fillLog,      \* fill: the fields a page call was issued on, in order, each
                  \* with the text for it and whether its calls all resolved
    box,          \* fill: the fraud-check checkbox in the document
    boxOps,       \* fill: the click and the programmatic set issued on the checkbox
    skipChecked,  \* fill: what the first read of el.checked gave (false when it rejected)
    stillUnchecked, \* fill: what the read of el.checked after the click gave
    fpc,          \* fill: position in the fill
    variant,      \* runner: which program started the orchestrator: runner.js,
                  \* the UI runner with /stop and /status, or the command line
    procs,        \* runner: the orchestrator processes started so far
    currentChild, \* runner: current.child, an index into procs, 0 for null
    killTimer,    \* runner: current.killTimer
    orphans,      \* runner: pending kill timers current.killTimer no longer holds
    res           \* runner: the last request handled and the response to it

mainVars == <<sheet, run, REVIEW_MODE, pc, browser, pageUsed, exitCode, firstStage, rows, idx,
              statusText, clock, start, polled, wstLog, outcome, touched, submitted,
              written, thrown, guard, mwait, fieldTouched, confirmed, submission>>

raceVars == <<stages, cond, watcher, raceResult, elapsed, firstTrue>>

cardVars == <<first4Raw, last12Raw, field, typings, typed, cpc>>

fillVars == <<BRAND, formValues, fpos, fillLog, box, boxOps, skipChecked, stillUnchecked, fpc>>

runnerVars == <<variant, procs, currentChild, killTimer, orphans, res>>

\* the variables of raceStages, of the card-number block, of the fill and of
\* the runner, which the steps of main() modelled here leave alone
idleVars == <<raceVars, cardVars, fillVars, runnerVars>>

\* the variables of the orchestrator process, which the runner does not see
orchestratorVars == <<mainVars, raceVars, cardVars, fillVars>>

vars == <<mainVars, raceVars, cardVars, fillVars, runnerVars>>

\* the texts the status node of the result page can hold
NodeTexts == {EMPTY, V_blank, V_okPadded}

\* the time a page.evaluate round trip takes, in ticks
EvalDelays == {0, 1}

Outcomes == {"pending", "skippedStatus", "skippedInvalid", "paused", "completed", "failed"}

\* the race variables while main() runs
RaceIdle ==
    /\ stages = <<>>
    /\ cond = <<>>
    /\ watcher = <<>>
    /\ raceResult = [value |-> "pending", at |-> 0]
    /\ elapsed = 0
    /\ firstTrue = [name |-> "none", at |-> 0]

\* the submit script has not run
NoSubmission == [form |-> FALSE, btn |-> FALSE, listener |-> FALSE, via |-> "none", sent |-> FALSE]

\* a fresh process of the orchestrator
ProcessStart(mode) ==
    /\ REVIEW_MODE = mode
    /\ pc = "launch"
    /\ browser = "none"
    /\ pageUsed = FALSE
    /\ exitCode = 0
    /\ firstStage = "none"
    /\ rows = <<>>
    /\ idx = 0
    /\ statusText = EMPTY
    /\ clock = 0
    /\ start = 0
    /\ polled = EMPTY
    /\ wstLog = <<>>
    /\ outcome = <<>>
    /\ touched = {}
    /\ submitted = {}
    /\ written = {}
    /\ thrown = "none"
    /\ guard = FALSE
    /\ mwait = <<>>
    /\ fieldTouched = FALSE
    /\ confirmed = "none"
    /\ submission = NoSubmission

\* the read-back has not been made
NotRead == [ok |-> FALSE, value |-> <<>>]

\* the card-number variables while main() or raceStages runs
CardIdle ==
    /\ first4Raw = <<>>
    /\ last12Raw = <<>>
    /\ field = <<>>
    /\ typings = <<>>
    /\ typed = NotRead
    /\ cpc = "idle"

\* the fill variables while main(), raceStages or the card-number block runs
FillIdle ==
    /\ BRAND = "booking"
    /\ formValues = <<>>
    /\ fpos = 0
    /\ fillLog = <<>>
    /\ box = "absent"
    /\ boxOps = <<>>
    /\ skipChecked = FALSE
    /\ stillUnchecked = FALSE
    /\ fpc = "idle"

\* the runner variables while a single orchestrator process is looked at
RunnerIdle ==
    /\ variant = "cli"
    /\ procs = <<>>
    /\ currentChild = 0
    /\ killTimer = "undefined"
    /\ orphans = 0
    /\ res = [route |-> "none"]

Init ==
    /\ sheet \in Sheets
    /\ run = 1
    /\ \E mode \in BOOLEAN : ProcessStart(mode)
    /\ RaceIdle
    /\ CardIdle
    /\ FillIdle
    /\ RunnerIdle

(***************************************************************************)
(* main(): launch, login, dashboard.                                        *)
(***************************************************************************)
\* the variables a step outside the row loop leaves alone
keepRow == <<rows, idx, statusText, clock, start, polled, wstLog, outcome, touched,
             submitted, written, guard, mwait, fieldTouched, confirmed, submission>>

keepPoll == <<statusText, clock, start, polled, wstLog>>

\* what main() knows of the document of the current row
rowVars == <<guard, mwait, fieldTouched, confirmed, submission>>

keepRun == <<sheet, run, REVIEW_MODE>>

\* importPuppeteer() and puppeteer.launch(): a failure rejects main(), whose
\* .catch exits with 1
Launch ==
    /\ pc = "launch"
    /\ \/ browser' = "open" /\ pc' = "goto" /\ UNCHANGED <<exitCode, thrown>>
       \/ browser' = "none" /\ pc' = "exited" /\ exitCode' = 1 /\ thrown' = "launch"
    /\ UNCHANGED <<keepRun, keepRow, pageUsed, firstStage, idleVars>>

\* a rejection that no call site handles leaves the try block from the step
\* it was raised in
Throws ==
    thrown' = IF pc' = "caught" THEN pc ELSE thrown

\* browser.newPage() and page.goto(loginUrl)
GotoLogin ==
    /\ pc = "goto"
    /\ pc' \in {"login_wait", "caught"}
    /\ pageUsed' = TRUE
    /\ Throws
    /\ UNCHANGED <<keepRun, keepRow, browser, exitCode, firstStage, idleVars>>

\* waitForAnySelector(page, SELECTORS.login, LOGIN_PAGE_LOAD_TIMEOUT_MS)
LoginPageWait ==
    /\ pc = "login_wait"
    /\ pc' \in {"post_login", "caught"}
    /\ Throws
    /\ UNCHANGED <<keepRun, keepRow, browser, pageUsed, exitCode, firstStage, idleVars>>

\* firstStage = await raceStages(page, [otp, dashboard], POST_LOGIN_WAIT_TIMEOUT_MS)
PostLoginRace_mut ==
    /\ pc = "post_login"
    /\ \/ firstStage' = "otp" /\ pc' = "otp_confirm"
       \/ firstStage' = "dashboard" /\ pc' = "read_rows"
       \/ firstStage' = firstStage /\ pc' = "read_rows"
    /\ Throws
    /\ UNCHANGED <<keepRun, keepRow, browser, pageUsed, exitCode, idleVars>>

PostLoginRace ==
    /\ pc = "post_login"
    /\ \/ firstStage' = "otp" /\ pc' = "otp_confirm"
       \/ firstStage' = "dashboard" /\ pc' = "read_rows"
       \/ firstStage' = firstStage /\ pc' = "caught"
    /\ Throws
    /\ UNCHANGED <<keepRun, keepRow, browser, pageUsed, exitCode, idleVars>>

\* waitForText(..., 5000).catch(() => {})
OtpConfirm ==
    /\ pc = "otp_confirm"
    /\ pc' = "otp_wait"
    /\ UNCHANGED <<keepRun, keepRow, browser, pageUsed, exitCode, thrown, firstStage, idleVars>>

\* waitForAnySelector(page, SELECTORS.dashboard, OTP_WAIT_TIMEOUT_MS)
OtpWait ==
    /\ pc = "otp_wait"
    /\ pc' \in {"read_rows", "caught"}
    /\ Throws
    /\ UNCHANGED <<keepRun, keepRow, browser, pageUsed, exitCode, firstStage, idleVars>>

\* rows = readAllRowsFromExcel(inputPath); a missing file throws; firstStage
\* is not read any more
ReadRows ==
    /\ pc = "read_rows"
    /\ \/ /\ rows' = readAllRowsFromExcel(sheet)
          /\ outcome' = [i \in 1..Len(sheet.data) |-> "pending"]
          /\ pc' = "loop"
       \/ /\ pc' = "caught"
          /\ UNCHANGED <<rows, outcome>>
    /\ idx' = 0
    /\ firstStage' = "none"
    /\ Throws
    /\ UNCHANGED <<keepRun, browser, pageUsed, exitCode, keepPoll, touched, submitted, written,
                   rowVars, idleVars>>

(***************************************************************************)
(* main(): the row loop.  rows[idx + 1] is the code's rows[idx].            *)
(***************************************************************************)
row == rows[idx + 1]

\* an awaited page call of the current row that resolves (to) or rejects
\* (to "caught", where the row has failed)
PageStep(from, tos) ==
    /\ pc = from
    /\ pc' \in tos
    /\ touched' = touched \cup {idx}
    /\ outcome' = IF pc' = "caught" THEN [outcome EXCEPT ![idx + 1] = "failed"] ELSE outcome
    /\ Throws
    /\ UNCHANGED <<keepRun, browser, pageUsed, exitCode, firstStage, rows, idx, idleVars>>

\* idx += 1 and back to the loop condition
NextRow_mut(result) ==
    /\ outcome' = [outcome EXCEPT ![idx + 1] = result]
    /\ idx' = idx + 2
    /\ pc' = "loop"

NextRow(result) ==
    /\ outcome' = [outcome EXCEPT ![idx + 1] = result]
    /\ idx' = idx + 1
    /\ pc' = "loop"

\* if (statusCell) { ...; continue; }
SkipStatus ==
    /\ pc = "loop"
    /\ idx < Len(rows)
    /\ hasStatus(row)
    /\ NextRow("skippedStatus")
    /\ UNCHANGED <<keepRun, browser, pageUsed, exitCode, thrown, firstStage, rows, keepPoll, touched,
                   submitted, written, rowVars, idleVars>>

\* if (cvvDigitsEarly.length < 3) { ...; continue; }
SkipInvalid_mut ==
    /\ pc = "loop"
    /\ idx < Len(rows)
    /\ ~hasStatus(row)
    /\ cvvTooShort(row)
    /\ NextRow("skippedInvalid")
    /\ touched' = touched \cup {idx}
    /\ UNCHANGED <<keepRun, browser, pageUsed, exitCode, thrown, firstStage, rows, keepPoll,
                   submitted, written, rowVars, idleVars>>

SkipInvalid ==
    /\ pc = "loop"
    /\ idx < Len(rows)
    /\ ~hasStatus(row)
    /\ cvvTooShort(row)
    /\ NextRow("skippedInvalid")
    /\ UNCHANGED <<keepRun, browser, pageUsed, exitCode, thrown, firstStage, rows, keepPoll, touched,
                   submitted, written, rowVars, idleVars>>

\* neither skip applies: await goToNewTransaction()
StartRow_mut ==
    /\ pc = "loop"
    /\ idx < Len(rows)
    /\ ~cvvTooShort(row)
    /\ pc' = "nav_wait_link"
    /\ statusText' = EMPTY
    /\ clock' = 0
    /\ start' = 0
    /\ polled' = EMPTY
    /\ wstLog' = <<>>
    /\ UNCHANGED <<keepRun, browser, pageUsed, exitCode, thrown, firstStage, rows, idx, outcome,
                   touched, submitted, written, rowVars, idleVars>>

StartRow ==
    /\ pc = "loop"
    /\ idx < Len(rows)
    /\ ~hasStatus(row)
    /\ ~cvvTooShort(row)
    /\ pc' = "nav_wait_link"
    /\ statusText' = EMPTY
    /\ clock' = 0
    /\ start' = 0
    /\ polled' = EMPTY
    /\ wstLog' = <<>>
    /\ UNCHANGED <<keepRun, browser, pageUsed, exitCode, thrown, firstStage, rows, idx, outcome,
                   touched, submitted, written, rowVars, idleVars>>

\* the loop condition fails: 'All rows processed successfully'
LoopExit ==
    /\ pc = "loop"
    /\ idx >= Len(rows)
    /\ pc' = "finally"
    /\ UNCHANGED <<keepRun, browser, pageUsed, exitCode, thrown, firstStage, keepRow, idleVars>>

\* goToNewTransaction: waitForAnySelector(page, SELECTORS.transactionsLink, 20000)
NavWaitLink ==
    /\ PageStep("nav_wait_link", {"nav_click_tx", "caught"})
    /\ UNCHANGED <<keepPoll, submitted, written, rowVars>>

\* click the first transactions link, on failure the second one
NavClickTransactions ==
    /\ PageStep("nav_click_tx", {"nav_race_link", "caught"})
    /\ UNCHANGED <<keepPoll, submitted, written, rowVars>>

\* race of the new-transaction link against the navigation (only the first can reject)
NavRaceLink ==
    /\ PageStep("nav_race_link", {"nav_click_new", "caught"})
    /\ UNCHANGED <<keepPoll, submitted, written, rowVars>>

\* click the first new-transaction link, on failure the second one
NavClickNew ==
    /\ PageStep("nav_click_new", {"nav_race_page", "caught"})
    /\ UNCHANGED <<keepPoll, submitted, written, rowVars>>

\* race of body.transactions_new against the navigation, both with .catch(() => null)
NavRacePage ==
    /\ PageStep("nav_race_page", {"nav_confirm"})
    /\ UNCHANGED <<keepPoll, submitted, written, rowVars>>

\* page.waitForSelector('body.transactions_new'), on failure the h2 fallback
NavConfirm ==
    /\ PageStep("nav_confirm", {"guard", "nav_fallback"})
    /\ confirmed' = IF pc' = "guard" THEN "body" ELSE "none"
    /\ UNCHANGED <<keepPoll, submitted, written, guard, mwait, fieldTouched, submission>>

\* waitForAnySelector(page, ['h2']) and the waitForFunction on the heading
\* text; their rejection is not handled
NavFallback_mut ==
    /\ PageStep("nav_fallback", {"guard"})
    /\ confirmed' \in {"heading", "none"}
    /\ UNCHANGED <<keepPoll, submitted, written, guard, mwait, fieldTouched, submission>>

NavFallback ==
    /\ PageStep("nav_fallback", {"guard", "caught"})
    /\ confirmed' = IF pc' = "guard" THEN "heading" ELSE "none"
    /\ UNCHANGED <<keepPoll, submitted, written, guard, mwait, fieldTouched, submission>>

\* page.evaluate installing the Enter and submit guards
InstallGuard_mut ==
    /\ PageStep("guard", {"critical_wait", "caught"})
    /\ guard' = FALSE
    /\ UNCHANGED <<keepPoll, submitted, written, mwait, fieldTouched, confirmed, submission>>

InstallGuard ==
    /\ PageStep("guard", {"critical_wait", "caught"})
    /\ guard' = (pc' = "critical_wait")
    /\ UNCHANGED <<keepPoll, submitted, written, mwait, fieldTouched, confirmed, submission>>

\* the result of a page.waitForSelector that went on to pc'
waitResult == IF pc' = "secondary_wait" THEN "ok" ELSE "timeout"

\* page.waitForSelector(FORM_SELECTORS.merchantAccount), first attempt
CriticalWait ==
    /\ PageStep("critical_wait", {"secondary_wait", "critical_retry"})
    /\ mwait' = Append(mwait, waitResult)
    /\ UNCHANGED <<keepPoll, submitted, written, guard, fieldTouched, confirmed, submission>>

\* sleep(1500) and the same wait once more; its rejection is not handled
CriticalRetry_mut ==
    /\ PageStep("critical_retry", {"secondary_wait"})
    /\ mwait' \in {Append(mwait, "ok"), Append(mwait, "timeout")}
    /\ UNCHANGED <<keepPoll, submitted, written, guard, fieldTouched, confirmed, submission>>

CriticalRetry ==
    /\ PageStep("critical_retry", {"secondary_wait", "caught"})
    /\ mwait' = Append(mwait, waitResult)
    /\ UNCHANGED <<keepPoll, submitted, written, guard, fieldTouched, confirmed, submission>>

\* Promise.all of the three waits with .catch(() => null), then sleep(400)
SecondaryWaits ==
    /\ PageStep("secondary_wait", {"fill"})
    /\ UNCHANGED <<keepPoll, submitted, written, rowVars>>

\* the field-by-field fill up to the fraud-check checkbox
FillForm ==
    /\ PageStep("fill", {"filled", "caught"})
    /\ fieldTouched' = TRUE
    /\ mwait' = <<>>
    /\ confirmed' = "none"
    /\ UNCHANGED <<keepPoll, submitted, written, guard, submission>>

\* if (REVIEW_MODE) await new Promise(() => {}): the promise never settles
ReviewPause_mut ==
    /\ pc = "filled"
    /\ REVIEW_MODE
    /\ pc' = "submit"
    /\ UNCHANGED <<keepRun, browser, pageUsed, exitCode, thrown, firstStage, keepRow, idleVars>>

ReviewPause ==
    /\ pc = "filled"
    /\ REVIEW_MODE
    /\ pc' = "paused"
    /\ outcome' = [outcome EXCEPT ![idx + 1] = "paused"]
    /\ UNCHANGED <<keepRun, browser, pageUsed, exitCode, thrown, firstStage, rows, idx, keepPoll,
                   touched, submitted, written, rowVars, idleVars>>

\* else: sleep(2000)
SettleDelay ==
    /\ pc = "filled"
    /\ ~REVIEW_MODE
    /\ pc' = "submit"
    /\ UNCHANGED <<keepRun, browser, pageUsed, exitCode, thrown, firstStage, keepRow, idleVars>>

\* if (form && typeof form.submit === 'function') { form.submit(); }
\* else if (btn) { btn.click(); }
submitPath_mut(form, btn) ==
    IF btn THEN "btn.click" ELSE IF form THEN "form.submit" ELSE "nothing"

submitPath(form, btn) ==
    IF form THEN "form.submit" ELSE IF btn THEN "btn.click" ELSE "nothing"

\* whether the document sends the form: form.submit() fires no submit event;
\* the click on the create button fires one on the button's form, and the
\* listener that the guard script put on #transaction_form (line 387)
\* cancels it with preventDefault
formSent(via, listener) ==
    via = "form.submit" \/ (via = "btn.click" /\ ~listener)

\* page.evaluate of the submit script, for a document with or without a form
\* whose submit is a function and with or without the create button; when
\* the button is clicked, the document either has no #transaction_form (the
\* guard put no submit listener) or has one whose submit is not a function
\* and that carries the listener; the evaluate can reject before the
\* document ran it, or after (the navigation destroys its context)
SubmitForm ==
    /\ PageStep("submit", {"submit_race", "caught"})
    /\ \/ /\ submitted' = submitted \cup {idx}
          /\ \E form, btn, listener \in BOOLEAN :
                /\ listener => submitPath(form, btn) = "btn.click"
                /\ submission' = [form |-> form, btn |-> btn, listener |-> listener,
                                  via |-> submitPath(form, btn),
                                  sent |-> formSent(submitPath(form, btn), listener)]
       \/ pc' = "caught" /\ submitted' = submitted /\ submission' = submission
    /\ UNCHANGED <<keepPoll, written, guard, mwait, fieldTouched, confirmed>>

\* race of the navigation against body.transactions_show, both with .catch(() => null)
SubmitRace ==
    /\ PageStep("submit_race", {"confirm_result"})
    /\ UNCHANGED <<keepPoll, submitted, written, rowVars>>

\* waitForAnySelector(page, SELECTORS.submitPage, 30000); its rejection is
\* not handled
ConfirmResultPage_mut ==
    /\ pc = "confirm_result"
    /\ pc' = "ready_wait"
    /\ thrown' \in {thrown, "confirm_result"}
    /\ touched' = touched \cup {idx}
    /\ submission' = NoSubmission
    /\ UNCHANGED <<keepRun, browser, pageUsed, exitCode, firstStage, rows, idx, keepPoll, outcome,
                   submitted, written, guard, mwait, fieldTouched, confirmed, idleVars>>

ConfirmResultPage ==
    /\ PageStep("confirm_result", {"ready_wait", "caught"})
    /\ submission' = IF pc' = "ready_wait" THEN NoSubmission ELSE submission
    /\ UNCHANGED <<keepPoll, submitted, written, guard, mwait, fieldTouched, confirmed>>

(***************************************************************************)
(* waitForStatusText and its two calls in main().                           *)
(***************************************************************************)
\* what the page.evaluate of waitForStatusText returns for a status node
\* holding t: (el.textContent || '').trim(); without the node it returns ''
readStatusNode(t) == trim(t)

\* const start = Date.now()
startOfCall(now, before) == now

\* Date.now() - start > timeoutMs
timedOut(now, since, timeoutMs) == now - since > timeoutMs

LogEntry(result, value) == [result |-> result, value |-> value]

\* try { await waitForAnySelector(page, SELECTORS.submitPage, STATUS_WAIT_TIMEOUT_MS) }
\* catch (_) {}, then the first waitForStatusText(page, STATUS_WAIT_TIMEOUT_MS) starts
ReadyWait ==
    /\ PageStep("ready_wait", {"wst_poll"})
    /\ start' = startOfCall(clock, start)
    /\ UNCHANGED <<statusText, clock, polled, wstLog, submitted, written, rowVars>>

\* one turn of the loop of waitForStatusText, from the page.evaluate to the
\* return, the throw or the sleep(1000); a rejected evaluate leaves text unset
waitForStatusText_poll_mut(text, now) ==
    IF timedOut(now, start, STATUS_WAIT_TIMEOUT_MS)
    THEN /\ wstLog' = Append(wstLog, LogEntry("timeout", EMPTY))
         /\ pc' = "wst_returned"
    ELSE IF text # EMPTY
         THEN /\ wstLog' = Append(wstLog, LogEntry("text", text))
              /\ pc' = "wst_returned"
         ELSE /\ wstLog' = wstLog
              /\ pc' = "wst_sleep"

waitForStatusText_poll(text, now) ==
    IF text # EMPTY
    THEN /\ wstLog' = Append(wstLog, LogEntry("text", text))
         /\ pc' = "wst_returned"
    ELSE IF timedOut(now, start, STATUS_WAIT_TIMEOUT_MS)
         THEN /\ wstLog' = Append(wstLog, LogEntry("timeout", EMPTY))
              /\ pc' = "wst_returned"
         ELSE /\ wstLog' = wstLog
              /\ pc' = "wst_sleep"

WstPoll ==
    /\ pc = "wst_poll"
    /\ \E d \in EvalDelays :
          /\ clock' = clock + d
          /\ \/ \E t \in NodeTexts :
                   /\ polled' = readStatusNode(t)
                   /\ waitForStatusText_poll(polled', clock')
             \/ /\ polled' = EMPTY
                /\ waitForStatusText_poll(EMPTY, clock')
    /\ touched' = touched \cup {idx}
    /\ UNCHANGED <<keepRun, browser, pageUsed, exitCode, thrown, firstStage, rows, idx, statusText, start,
                   outcome, submitted, written, rowVars, idleVars>>

\* await sleep(1000)
WstSleep_mut ==
    /\ pc = "wst_sleep"
    /\ clock' = clock
    /\ pc' = "wst_poll"
    /\ UNCHANGED <<keepRun, browser, pageUsed, exitCode, thrown, firstStage, rows, idx, statusText, start,
                   polled, wstLog, outcome, touched, submitted, written, rowVars, idleVars>>

WstSleep ==
    /\ pc = "wst_sleep"
    /\ clock' = clock + POLL_SLEEP
    /\ pc' = "wst_poll"
    /\ UNCHANGED <<keepRun, browser, pageUsed, exitCode, thrown, firstStage, rows, idx, statusText, start,
                   polled, wstLog, outcome, touched, submitted, written, rowVars, idleVars>>

lastCall == wstLog[Len(wstLog)]

\* the status capture is over: the locals of waitForStatusText are gone
CaptureEnds ==
    /\ clock' = 0
    /\ start' = 0
    /\ polled' = EMPTY

\* statusText = await waitForStatusText(...): either call returned a text
CaptureDone_mut ==
    /\ pc = "wst_returned"
    /\ lastCall.result = "text"
    /\ statusText' = EMPTY
    /\ pc' = "persist"
    /\ CaptureEnds
    /\ UNCHANGED <<keepRun, browser, pageUsed, exitCode, thrown, firstStage, rows, idx, wstLog, outcome,
                   touched, submitted, written, rowVars, idleVars>>

CaptureDone ==
    /\ pc = "wst_returned"
    /\ lastCall.result = "text"
    /\ statusText' = lastCall.value
    /\ pc' = "persist"
    /\ CaptureEnds
    /\ UNCHANGED <<keepRun, browser, pageUsed, exitCode, thrown, firstStage, rows, idx, wstLog, outcome,
                   touched, submitted, written, rowVars, idleVars>>

\* the catch of the first call only: sleep(2000), then the second call
retryAllowed_mut(log) == Len(log) <= 2

retryAllowed(log) == Len(log) = 1

RetryOnce ==
    /\ pc = "wst_returned"
    /\ lastCall.result = "timeout"
    /\ retryAllowed(wstLog)
    /\ clock' = clock + RETRY_SLEEP
    /\ start' = startOfCall(clock', start)
    /\ pc' = "wst_poll"
    /\ UNCHANGED <<keepRun, browser, pageUsed, exitCode, thrown, firstStage, rows, idx, statusText,
                   polled, wstLog, outcome, touched, submitted, written, rowVars, idleVars>>

\* the second call timed out too: .catch(() => '')
CaptureGiveUp_mut ==
    /\ pc = "wst_returned"
    /\ lastCall.result = "timeout"
    /\ ~retryAllowed(wstLog)
    /\ statusText' = EMPTY
    /\ pc' = "caught"
    /\ outcome' = [outcome EXCEPT ![idx + 1] = "failed"]
    /\ CaptureEnds
    /\ Throws
    /\ UNCHANGED <<keepRun, browser, pageUsed, exitCode, firstStage, rows, idx, wstLog, touched,
                   submitted, written, rowVars, idleVars>>

CaptureGiveUp_na ==
    /\ pc = "wst_returned"
    /\ lastCall.result = "timeout"
    /\ ~retryAllowed(wstLog)
    /\ statusText' = <<"N", "/", "A">>
    /\ pc' = "persist"
    /\ CaptureEnds
    /\ UNCHANGED <<keepRun, browser, pageUsed, exitCode, thrown, firstStage, rows, idx, wstLog, outcome,
                   touched, submitted, written, rowVars, idleVars>>

CaptureGiveUp ==
    /\ pc = "wst_returned"
    /\ lastCall.result = "timeout"
    /\ ~retryAllowed(wstLog)
    /\ statusText' = EMPTY
    /\ pc' = "persist"
    /\ CaptureEnds
    /\ UNCHANGED <<keepRun, browser, pageUsed, exitCode, thrown, firstStage, rows, idx, wstLog, outcome,
                   touched, submitted, written, rowVars, idleVars>>

\* try { writeStatusToExcel(inputPath, idx, statusText || '') } catch (e) { warn }
Persist_mut ==
    /\ pc = "persist"
    /\ \/ /\ sheet' = writeStatusToExcel(sheet, idx, statusText)
          /\ written' = written \cup {idx}
          /\ pc' = "return_wait"
          /\ UNCHANGED outcome
       \/ /\ pc' = "caught"
          /\ outcome' = [outcome EXCEPT ![idx + 1] = "failed"]
          /\ UNCHANGED <<sheet, written>>
    /\ Throws
    /\ UNCHANGED <<run, REVIEW_MODE, browser, pageUsed, exitCode, firstStage, rows, idx, keepPoll,
                   touched, submitted, rowVars, idleVars>>

Persist ==
    /\ pc = "persist"
    /\ \/ /\ sheet' = writeStatusToExcel(sheet, idx, statusText)
          /\ written' = written \cup {idx}
       \/ UNCHANGED <<sheet, written>>
    /\ pc' = "return_wait"
    /\ UNCHANGED <<run, REVIEW_MODE, browser, pageUsed, exitCode, thrown, firstStage, rows, idx, keepPoll,
                   outcome, touched, submitted, rowVars, idleVars>>

\* waitForAnySelector(page, SELECTORS.transactionsLink, 15000)
ReturnWait ==
    /\ PageStep("return_wait", {"return_click", "caught"})
    /\ UNCHANGED <<keepPoll, submitted, written, rowVars>>

\* click the first transactions link, on failure the second one
ReturnClick ==
    /\ PageStep("return_click", {"return_race", "caught"})
    /\ UNCHANGED <<keepPoll, submitted, written, rowVars>>

\* race of the navigation against the new-transaction link, both with
\* .catch(() => null); then the next iteration, where statusText and the
\* poller's locals are out of scope
ReturnRace ==
    /\ pc = "return_race"
    /\ touched' = touched \cup {idx}
    /\ NextRow("completed")
    /\ statusText' = EMPTY
    /\ clock' = 0
    /\ start' = 0
    /\ polled' = EMPTY
    /\ wstLog' = <<>>
    /\ guard' = FALSE
    /\ mwait' = <<>>
    /\ fieldTouched' = FALSE
    /\ confirmed' = "none"
    /\ submission' = NoSubmission
    /\ UNCHANGED <<keepRun, browser, pageUsed, exitCode, thrown, firstStage, rows, submitted,
                   written, idleVars>>

(***************************************************************************)
(* main(): catch, finally, and the next run over the same file.            *)
(***************************************************************************)
\* catch (err) { exitCode = 1; ... }: the catch is outside the row loop
Catch_mut ==
    /\ pc = "caught"
    /\ exitCode' = 1
    /\ pc' = "loop"
    /\ idx' = idx + 1
    /\ UNCHANGED <<keepRun, browser, pageUsed, thrown, firstStage, rows, keepPoll, outcome, touched,
                   submitted, written, rowVars, idleVars>>

Catch_exit0 ==
    /\ pc = "caught"
    /\ exitCode' = exitCode
    /\ pc' = "finally"
    /\ UNCHANGED <<keepRun, browser, pageUsed, thrown, firstStage, keepRow, idleVars>>

Catch ==
    /\ pc = "caught"
    /\ exitCode' = 1
    /\ pc' = "finally"
    /\ UNCHANGED <<keepRun, browser, pageUsed, thrown, firstStage, keepRow, idleVars>>

\* finally { try { await browser.close() } catch (e) {} process.exit(exitCode) }
Finally_mut ==
    /\ pc = "finally"
    /\ browser' \in {"closed", "open"}
    /\ exitCode' = IF browser' = "open" THEN 1 ELSE exitCode
    /\ pc' = "exited"
    /\ UNCHANGED <<keepRun, pageUsed, thrown, firstStage, keepRow, idleVars>>

Finally ==
    /\ pc = "finally"
    /\ browser' \in {"closed", "open"}
    /\ pc' = "exited"
    /\ UNCHANGED <<keepRun, pageUsed, exitCode, thrown, firstStage, keepRow, idleVars>>

\* the operator starts the orchestrator again on the same file, after the
\* process has exited or after ending a paused review run
NewRun ==
    /\ pc \in {"exited", "paused"}
    /\ run < MaxRuns
    /\ run' = run + 1
    /\ REVIEW_MODE' \in BOOLEAN
    /\ pc' = "launch"
    /\ browser' = "none"
    /\ pageUsed' = FALSE
    /\ exitCode' = 0
    /\ firstStage' = "none"
    /\ rows' = <<>>
    /\ idx' = 0
    /\ statusText' = EMPTY
    /\ clock' = 0
    /\ start' = 0
    /\ polled' = EMPTY
    /\ wstLog' = <<>>
    /\ outcome' = <<>>
    /\ touched' = {}
    /\ submitted' = {}
    /\ written' = {}
    /\ thrown' = "none"
    /\ guard' = FALSE
    /\ mwait' = <<>>
    /\ fieldTouched' = FALSE
    /\ confirmed' = "none"
    /\ submission' = NoSubmission
    /\ UNCHANGED <<sheet, idleVars>>

Next ==
    \/ Launch \/ GotoLogin \/ LoginPageWait \/ PostLoginRace \/ OtpConfirm \/ OtpWait
    \/ ReadRows \/ SkipStatus \/ SkipInvalid \/ StartRow \/ LoopExit
    \/ NavWaitLink \/ NavClickTransactions \/ NavRaceLink \/ NavClickNew \/ NavRacePage
    \/ NavConfirm \/ NavFallback \/ InstallGuard \/ CriticalWait \/ CriticalRetry
    \/ SecondaryWaits \/ FillForm \/ ReviewPause \/ SettleDelay \/ SubmitForm
    \/ SubmitRace \/ ConfirmResultPage \/ ReadyWait \/ WstPoll \/ WstSleep
    \/ CaptureDone \/ RetryOnce \/ CaptureGiveUp \/ Persist
    \/ ReturnWait \/ ReturnClick \/ ReturnRace \/ Catch \/ Finally \/ NewRun

Spec == Init /\ [][Next]_vars

(***************************************************************************)
(* main() in auto-submit mode over a single valid record, with a remote    *)
(* application that answers within every deadline and a store that takes   *)
(* the write.  main() is one sequential async function: each of its awaits *)
(* settles, so a step that is possible is eventually taken.                 *)
(***************************************************************************)
\* single-record files without status column, the CVV under each accepted header
E2ESheets == {[hdr |-> <<h>>, data |-> << <<V_123>> >>] : h \in {K_CVV, K_SecurityCode, K_CVV2}}

InitE2E ==
    /\ sheet \in E2ESheets
    /\ run = 1
    /\ ProcessStart(FALSE)
    /\ RaceIdle
    /\ CardIdle
    /\ FillIdle
    /\ RunnerIdle

\* the step is one of a responding application: the browser starts, no
\* awaited call rejects, every wait is satisfied at its first attempt, the
\* document has the form or the create button and sends the form, the status
\* node gets its text before the timeout of the first waitForStatusText, and the file is written
Responds ==
    /\ pc' \notin {"caught", "nav_fallback", "critical_retry"}
    /\ pc = "launch" => browser' = "open"
    /\ REVIEW_MODE' = FALSE
    /\ submission'.via # "nothing"
    /\ submission'.via # "none" => submission'.sent
    /\ \A i \in 1..Len(wstLog') : wstLog'[i].result = "text"
    /\ pc = "persist" => written' = written \cup {idx}

NextE2E ==
    \/ (Launch /\ Responds)
    \/ (GotoLogin /\ Responds)
    \/ (LoginPageWait /\ Responds)
    \/ (PostLoginRace /\ Responds)
    \/ (OtpConfirm /\ Responds)
    \/ (OtpWait /\ Responds)
    \/ (ReadRows /\ Responds)
    \/ (SkipStatus /\ Responds)
    \/ (StartRow /\ Responds)
    \/ (LoopExit /\ Responds)
    \/ (NavWaitLink /\ Responds)
    \/ (NavClickTransactions /\ Responds)
    \/ (NavRaceLink /\ Responds)
    \/ (NavClickNew /\ Responds)
    \/ (NavRacePage /\ Responds)
    \/ (NavConfirm /\ Responds)
    \/ (InstallGuard /\ Responds)
    \/ (CriticalWait /\ Responds)
    \/ (SecondaryWaits /\ Responds)
    \/ (FillForm /\ Responds)
    \/ (SettleDelay /\ Responds)
    \/ (SubmitForm /\ Responds)
    \/ (SubmitRace /\ Responds)
    \/ (ConfirmResultPage /\ Responds)
    \/ (ReadyWait /\ Responds)
    \/ (WstPoll /\ Responds)
    \/ (WstSleep /\ Responds)
    \/ (CaptureDone /\ Responds)
    \/ (Persist /\ Responds)
    \/ (ReturnWait /\ Responds)
    \/ (ReturnClick /\ Responds)
    \/ (ReturnRace /\ Responds)
    \/ (Finally /\ Responds)
    \/ (NewRun /\ Responds)

SpecE2E == InitE2E /\ [][NextE2E]_vars /\ WF_vars(NextE2E)

(***************************************************************************)
(* main() in auto-submit mode over any of the files, one run.  Every       *)
(* awaited page call returns or fails and every timer fires, so main(),    *)
(* one sequential async function, always takes its next step.               *)
(***************************************************************************)
InitAuto ==
    /\ sheet \in Sheets
    /\ run = 1
    /\ ProcessStart(FALSE)
    /\ RaceIdle
    /\ CardIdle
    /\ FillIdle
    /\ RunnerIdle

NextAuto ==
    \/ Launch \/ GotoLogin \/ LoginPageWait \/ PostLoginRace \/ OtpConfirm \/ OtpWait
    \/ ReadRows \/ SkipStatus \/ SkipInvalid \/ StartRow \/ LoopExit
    \/ NavWaitLink \/ NavClickTransactions \/ NavRaceLink \/ NavClickNew \/ NavRacePage
    \/ NavConfirm \/ NavFallback \/ InstallGuard \/ CriticalWait \/ CriticalRetry
    \/ SecondaryWaits \/ FillForm \/ SettleDelay \/ SubmitForm
    \/ SubmitRace \/ ConfirmResultPage \/ ReadyWait \/ WstPoll \/ WstSleep
    \/ CaptureDone \/ RetryOnce \/ CaptureGiveUp \/ Persist
    \/ ReturnWait \/ ReturnClick \/ ReturnRace \/ Catch \/ Finally

SpecAuto == InitAuto /\ [][NextAuto]_vars /\ WF_vars(NextAuto)

(***************************************************************************)
(* raceStages(page, stages, timeoutMs).                                     *)
(*                                                                          *)
(* Every stage gets one page.waitForFunction promise (a watcher), polled   *)
(* in the document on every frame and rejected by a timer after timeoutMs; *)
(* Promise.race settles like the watcher that settles first.  A document   *)
(* change is what happened between two frames, a tick is 1000 ms.          *)
(***************************************************************************)
StageNames == <<"A", "B", "C", "D">>

StageTypes == {"selectors", "text"}

StageLists ==
    UNION {{[i \in 1..n |-> [name |-> StageNames[i], type |-> ty[i]]] :
                ty \in [1..n -> StageTypes]} : n \in 1..MaxStages}

Pending == [value |-> "pending", at |-> 0]

\* the watcher of a stage right after stages.map: pending for the two known
\* types, already rejected for any other (Promise.reject)
watcherOf(stage) ==
    IF stage.type \in {"selectors", "text"} THEN "pending" ELSE "rejected"

\* waitForAnySelector(...).then(() => stage.name)
resolvedValue(stgs, i) == stgs[i].name

\* { timeout: timeoutMs } of the watcher of a stage
watcherTimeout_mut(stgs, i, timeoutMs) == timeoutMs - 1

watcherTimeout(stgs, i, timeoutMs) == timeoutMs

\* Promise.race(promises): the first promise to settle decides, later ones
\* are ignored
Promise_race_mut(settled, value, now) == [value |-> value, at |-> now]

Promise_race(settled, value, now) ==
    IF settled.value = "pending" THEN [value |-> value, at |-> now] ELSE settled

\* the stage whose condition holds first, seen from the document
seenFirst(ft, c, now) ==
    IF ft.name # "none" \/ \A i \in 1..Len(c) : ~c[i] THEN ft
    ELSE IF Cardinality({i \in 1..Len(c) : c[i]}) = 1
         THEN [name |-> StageNames[CHOOSE i \in 1..Len(c) : c[i]], at |-> now]
         ELSE [name |-> "tie", at |-> now]

NoneYet == [name |-> "none", at |-> 0]

\* a watcher that would resolve on the frame in progress
due(i) == watcher[i] = "pending" /\ cond[i]

\* a watcher whose timer cannot be later than it is
overdue(i) ==
    /\ watcher[i] = "pending"
    /\ elapsed >= watcherTimeout(stages, i, RaceTimeout) + TimerLateness

\* an orchestrator that is not running, for the specifications of single functions
MainIdle ==
    /\ sheet = [hdr |-> <<K_CVV>>, data |-> << <<V_123>> >>]
    /\ run = 1
    /\ ProcessStart(FALSE)

\* the call raceStages(page, stages, RaceTimeout)
InitRace ==
    /\ MainIdle
    /\ CardIdle
    /\ FillIdle
    /\ RunnerIdle
    /\ stages \in StageLists
    /\ cond \in [1..Len(stages) -> BOOLEAN]
    /\ watcher = [i \in 1..Len(stages) |-> watcherOf(stages[i])]
    /\ raceResult = Pending
    /\ elapsed = 0
    /\ firstTrue = seenFirst(NoneYet, cond, 0)

\* the document changes between two frames
DocChange ==
    /\ \E i \in 1..Len(stages) : watcher[i] = "pending"
    /\ \A i \in 1..Len(stages) : ~due(i)
    /\ cond' \in [1..Len(stages) -> BOOLEAN] \ {cond}
    /\ firstTrue' = seenFirst(firstTrue, cond', elapsed)
    /\ UNCHANGED <<stages, watcher, raceResult, elapsed, mainVars, cardVars, fillVars, runnerVars>>

\* the predicate of watcher i is truthy on this frame: its promise resolves
\* to the stage name
WatcherResolves ==
    \E i \in 1..Len(stages) :
        /\ due(i)
        /\ watcher' = [watcher EXCEPT ![i] = "resolved"]
        /\ raceResult' = Promise_race(raceResult, resolvedValue(stages, i), elapsed)
        /\ UNCHANGED <<stages, cond, elapsed, firstTrue, mainVars, cardVars, fillVars, runnerVars>>

\* the timeout of watcher i fires: its promise rejects with a TimeoutError
WatcherTimesOut ==
    \E i \in 1..Len(stages) :
        /\ watcher[i] = "pending"
        /\ elapsed >= watcherTimeout(stages, i, RaceTimeout)
        /\ watcher' = [watcher EXCEPT ![i] = "rejected"]
        /\ raceResult' = Promise_race(raceResult, "TimeoutError", elapsed)
        /\ UNCHANGED <<stages, cond, elapsed, firstTrue, mainVars, cardVars, fillVars, runnerVars>>

\* 1000 ms pass: no frame and no timer is left waiting that long
Tick ==
    /\ \E i \in 1..Len(stages) : watcher[i] = "pending"
    /\ \A i \in 1..Len(stages) : ~due(i) /\ ~overdue(i)
    /\ elapsed' = elapsed + 1
    /\ UNCHANGED <<stages, cond, watcher, raceResult, firstTrue, mainVars, cardVars, fillVars, runnerVars>>

NextRace == DocChange \/ WatcherResolves \/ WatcherTimesOut \/ Tick

SpecRace == InitRace /\ [][NextRace]_vars

(***************************************************************************)
(* main(): the card-number block of the fill.                               *)
(*                                                                          *)
(* The card number is typed into its input, the input's value is read      *)
(* back, and when it holds fewer digits than expected the rest is typed.   *)
(* The input may belong to a masking widget: of a burst of keystrokes it   *)
(* may keep only a part, and it may group the digits by four.               *)
(***************************************************************************)
\* s.slice(0, n)
sliceTo(s, n) == SubSeq(s, 1, Min({n, Len(s)}))

\* s.slice(n)
sliceFrom(s, n) == SubSeq(s, n + 1, Len(s))

\* String(first4Raw).replace(/\D+/g, '').slice(0, 4)
first4Digits(f) == sliceTo(stripNonDigits(f), FIRST4_LEN)

\* String(last12Raw).replace(/\D+/g, '').slice(0, 12)
last12Digits(l) == sliceTo(stripNonDigits(l), LAST12_LEN)

\* buildCardNumber(first4, last12): `${f}${l}`.trim() of the two fragments
\* stripped to digits and cut to 4 and 12
buildCardNumber(first4, last12) ==
    LET f == sliceTo(stripNonDigits(first4), 4)
        l == sliceTo(stripNonDigits(last12), 12)
    IN  trim(f \o l)

\* formValues.cardNumber: both fragments joined, or the one that is not empty
cardNumber_mut(f, l) ==
    IF first4Digits(f) # <<>> /\ last12Digits(l) # <<>>
    THEN first4Digits(f) \o stripNonDigits(l)
    ELSE IF first4Digits(f) # <<>> THEN first4Digits(f)
    ELSE last12Digits(l)

cardNumber(f, l) ==
    IF first4Digits(f) # <<>> /\ last12Digits(l) # <<>>
    THEN first4Digits(f) \o last12Digits(l)
    ELSE IF first4Digits(f) # <<>> THEN first4Digits(f)
    ELSE IF last12Digits(l) # <<>> THEN last12Digits(l)
    ELSE <<>>

\* const expectedDigits = `${first4Digits}${last12Digits}`
expectedDigits(f, l) == first4Digits(f) \o last12Digits(l)

\* const remaining = expectedDigits.slice(typedDigits.length), where
\* typedDigits is the value read back, stripped to digits
remaining_mut(expected, value) == sliceFrom(expected, Len(value))

remaining(expected, value) == sliceFrom(expected, Len(stripNonDigits(value)))

\* if (expectedDigits && typedDigits.length < expectedDigits.length)
needsRest(expected, value) ==
    expected # <<>> /\ Len(stripNonDigits(value)) < Len(expected)

\* the digits 1, 2, 3, ... of a fragment of n digits
DigitAt == <<"1", "2", "3", "4", "5", "6", "7", "8", "9", "0">>

DigitRun(n) == [i \in 1..n |-> DigitAt[((i - 1) % 10) + 1]]

\* the values a record holds under the first-4 and last-12 headers
First4Inputs == {<<>>, DigitRun(4), <<"4", "1", "-", "1", "1">>, DigitRun(5)}

Last12Inputs == {<<>>, DigitRun(12), <<" ">> \o DigitRun(13)}

\* a masking widget showing digits in groups of four
RECURSIVE group4(_)
group4(s) ==
    IF Len(s) <= 4 THEN s
    ELSE SubSeq(s, 1, 4) \o <<" ">> \o group4(SubSeq(s, 5, Len(s)))

\* what the input can hold after a burst of keystrokes t into the empty,
\* focused input: a part of the burst from its start, plain or grouped, or
\* the burst without its first keystroke
afterTyping(t) ==
    {sliceTo(t, k) : k \in 0..Len(t)}
        \cup {group4(sliceTo(t, k)) : k \in 0..Len(t)}
        \cup {sliceFrom(t, 1)}

\* the start of the card-number block for a record
InitCard ==
    /\ MainIdle
    /\ RaceIdle
    /\ FillIdle
    /\ RunnerIdle
    /\ first4Raw \in First4Inputs
    /\ last12Raw \in Last12Inputs
    /\ field = <<>>
    /\ typings = <<>>
    /\ typed = NotRead
    /\ cpc = "card"

\* if (formValues.cardNumber) is false: the block is skipped
SkipCard ==
    /\ cpc = "card"
    /\ cardNumber(first4Raw, last12Raw) = <<>>
    /\ cpc' = "done"
    /\ UNCHANGED <<first4Raw, last12Raw, field, typings, typed, mainVars, raceVars, fillVars, runnerVars>>

\* page.focus, page.click({ clickCount: 3 }) and page.type(cardNumber); a
\* rejection of one of them fails the record
TypeCard ==
    /\ cpc = "card"
    /\ cardNumber(first4Raw, last12Raw) # <<>>
    /\ \/ /\ typings' = <<cardNumber(first4Raw, last12Raw)>>
          /\ field' \in afterTyping(cardNumber(first4Raw, last12Raw))
          /\ cpc' = "read_back"
       \/ /\ cpc' = "failed"
          /\ UNCHANGED <<typings, field>>
    /\ UNCHANGED <<first4Raw, last12Raw, typed, mainVars, raceVars, fillVars, runnerVars>>

\* typed = await page.$eval(cardNumber, el => el.value || ''); a rejection
\* is caught and ends the block
ReadBack ==
    /\ cpc = "read_back"
    /\ \/ /\ typed' = [ok |-> TRUE, value |-> field]
          /\ cpc' = IF needsRest(expectedDigits(first4Raw, last12Raw), field)
                    THEN "type_rest" ELSE "done"
       \/ /\ typed' = NotRead
          /\ cpc' = "done"
    /\ UNCHANGED <<first4Raw, last12Raw, field, typings, mainVars, raceVars, fillVars, runnerVars>>

\* await page.type(cardNumber, remaining): the keystrokes go to the end of
\* the input; a rejection is caught, with a part of them typed
TypeRest ==
    /\ cpc = "type_rest"
    /\ typings' = Append(typings, remaining(expectedDigits(first4Raw, last12Raw), typed.value))
    /\ \/ /\ field' = field \o typings'[2]
          /\ cpc' = "done"
       \/ /\ \E k \in 0..(Len(typings'[2]) - 1) : field' = field \o sliceTo(typings'[2], k)
          /\ cpc' = "done_rejected"
    /\ UNCHANGED <<first4Raw, last12Raw, typed, mainVars, raceVars, fillVars, runnerVars>>

NextCard == SkipCard \/ TypeCard \/ ReadBack \/ TypeRest

SpecCard == InitCard /\ [][NextCard]_vars

(***************************************************************************)
(* main(): the fill of the form, field block by field block, and the       *)
(* fraud-check checkbox.  valueByHeaders gives a trimmed text or ''.        *)
(***************************************************************************)
Brands == {"agoda", "booking"}

\* s.replace(/\s+/g, '')
removeSpaces(s) == SelectSeq(s, LAMBDA c : ~IsSpace(c))

\* const formValues = {...}, from what valueByHeaders gave for the record
FormValues(brand, m, a, o, c, f4, l12, e, v) ==
    [merchantAccount    |-> m,
     amount             |-> a,
     orderId            |-> o,
     customerFirstName  |-> c,
     cardholderName     |-> IF brand = "agoda" THEN "Agoda Ltd." ELSE "BOOKING.COM",
     cardNumber         |-> cardNumber(f4, l12),
     expirationDate     |-> removeSpaces(e),
     cvv                |-> v,
     billingPostalCode  |-> IF brand = "agoda" THEN "80525" ELSE "10118",
     billingCompany     |-> "",
     billingCountryName |-> "United States of America"]

\* the field blocks of the fill in the order of the code
FieldOrder ==
    <<"merchantAccount", "amount", "orderId", "customerFirstName", "cardholderName",
      "cardNumber", "expirationDate", "cvv", "billingPostalCode", "billingFirstName",
      "billingStreet", "billingRegion", "billingCompany", "billingCountryName">>

\* the blocks under if (formValues.<field>) whose value comes from the record
MappedFields ==
    {"merchantAccount", "amount", "orderId", "customerFirstName", "cardNumber",
     "expirationDate", "cvv"}

\* the blocks under if (BRAND === 'agoda')
AgodaFields == {"billingStreet", "billingRegion"}

\* the blocks inside a try with an empty catch
CaughtFields == {"billingFirstName", "billingStreet", "billingRegion", "billingCompany"}

\* the condition under which a block issues its page calls
applies_mut(f) ==
    IF f \in MappedFields THEN formValues[f] # EMPTY ELSE TRUE

applies(f) ==
    IF f \in MappedFields THEN formValues[f] # EMPTY
    ELSE IF f \in AgodaFields THEN BRAND = "agoda"
    ELSE TRUE

\* the text a block types or sets
textFor(f) ==
    IF f = "billingFirstName"
    THEN (IF BRAND = "agoda" THEN "Agoda Company Pte Ltd." ELSE "Booking.com")
    ELSE IF f = "billingStreet" THEN "155 E. Boardwalk #490"
    ELSE IF f = "billingRegion" THEN "Fort Collins, CO"
    ELSE formValues[f]

\* what valueByHeaders can give for a record that reached the fill
TextInputs == {EMPTY, V_ok}

CardInputs == {<< <<"-">>, <<>> >>, <<DigitRun(4), DigitRun(12)>>}

ExpiryInputs == {EMPTY, <<"1", "2", "/", " ", "3", "0">>}

BoxStates == {"absent", "unchecked", "checked"}

\* the start of the fill for a record
InitFill ==
    /\ MainIdle
    /\ RaceIdle
    /\ CardIdle
    /\ RunnerIdle
    /\ BRAND \in Brands
    /\ \E m, a, o, c \in TextInputs, card \in CardInputs, e \in ExpiryInputs :
          formValues = FormValues(BRAND, m, a, o, c, card[1], card[2], e, V_123)
    /\ fpos = 1
    /\ fillLog = <<>>
    /\ box \in BoxStates
    /\ boxOps = <<>>
    /\ skipChecked = FALSE
    /\ stillUnchecked = FALSE
    /\ fpc = "fields"

\* on to the next block, after the last one to the checkbox
NextBlock ==
    /\ fpos' = fpos + 1
    /\ fpc' = IF fpos = Len(FieldOrder) THEN "box_read" ELSE "fields"

LogOf(f, resolved) == [field |-> f, value |-> textFor(f), typed |-> resolved]

\* the condition of the block is false: no page call for the field
FieldSkipped ==
    /\ fpc = "fields"
    /\ ~applies(FieldOrder[fpos])
    /\ NextBlock
    /\ UNCHANGED <<BRAND, formValues, fillLog, box, boxOps, skipChecked, stillUnchecked,
                   mainVars, raceVars, cardVars, runnerVars>>

\* page.focus, page.click({ clickCount: 3 }) and page.type all resolve (for
\* the company the $eval, for the country page.select or its fallback)
FieldFilled ==
    /\ fpc = "fields"
    /\ applies(FieldOrder[fpos])
    /\ fillLog' = Append(fillLog, LogOf(FieldOrder[fpos], TRUE))
    /\ NextBlock
    /\ UNCHANGED <<BRAND, formValues, box, boxOps, skipChecked, stillUnchecked,
                   mainVars, raceVars, cardVars, runnerVars>>

\* one of the calls of the block rejects: inside a try the fill goes on,
\* elsewhere the rejection leaves the fill
FieldRejected ==
    /\ fpc = "fields"
    /\ applies(FieldOrder[fpos])
    /\ fillLog' = Append(fillLog, LogOf(FieldOrder[fpos], FALSE))
    /\ IF FieldOrder[fpos] \in CaughtFields
       THEN NextBlock
       ELSE fpc' = "failed" /\ fpos' = fpos
    /\ UNCHANGED <<BRAND, formValues, box, boxOps, skipChecked, stillUnchecked,
                   mainVars, raceVars, cardVars, runnerVars>>

\* what page.$eval(checkbox, el => el.checked).catch(() => false) can give:
\* el.checked, or false when the $eval rejects (always without the element)
readChecked ==
    IF box = "absent" THEN {FALSE} ELSE {box = "checked", FALSE}

\* const skipChecked = await page.$eval(...).catch(() => false)
BoxRead ==
    /\ fpc = "box_read"
    /\ skipChecked' \in readChecked
    /\ fpc' = IF skipChecked' THEN "done" ELSE "box_click"
    /\ UNCHANGED <<BRAND, formValues, fpos, fillLog, box, boxOps, stillUnchecked,
                   mainVars, raceVars, cardVars, runnerVars>>

\* what a click does to the checkbox
toggled(b) ==
    IF b = "checked" THEN "unchecked" ELSE IF b = "unchecked" THEN "checked" ELSE b

\* scrollIntoView in a try, then page.click(checkbox).catch(() => {}): the
\* click toggles the box, or has no effect on it (it rejected, or the
\* handler did not take it)
BoxClick ==
    /\ fpc = "box_click"
    /\ boxOps' = Append(boxOps, "click")
    /\ box' \in {toggled(box), box}
    /\ fpc' = "box_reread"
    /\ UNCHANGED <<BRAND, formValues, fpos, fillLog, skipChecked, stillUnchecked,
                   mainVars, raceVars, cardVars, runnerVars>>

\* const stillUnchecked = await page.$eval(...el.checked).catch(() => false);
\* if (!stillUnchecked) the box is set programmatically
BoxReread_mut ==
    /\ fpc = "box_reread"
    /\ stillUnchecked' \in readChecked
    /\ fpc' = IF stillUnchecked' THEN "box_force" ELSE "done"
    /\ UNCHANGED <<BRAND, formValues, fpos, fillLog, box, boxOps, skipChecked,
                   mainVars, raceVars, cardVars, runnerVars>>

BoxReread ==
    /\ fpc = "box_reread"
    /\ stillUnchecked' \in readChecked
    /\ fpc' = IF stillUnchecked' THEN "done" ELSE "box_force"
    /\ UNCHANGED <<BRAND, formValues, fpos, fillLog, box, boxOps, skipChecked,
                   mainVars, raceVars, cardVars, runnerVars>>

\* await page.evaluate(sel => { if (el) { el.checked = true; dispatch change } }):
\* not caught, its rejection leaves the fill
BoxForce ==
    /\ fpc = "box_force"
    /\ boxOps' = Append(boxOps, "force")
    /\ \/ /\ box' = IF box = "absent" THEN "absent" ELSE "checked"
          /\ fpc' = "done"
       \/ /\ box' = box
          /\ fpc' = "failed"
    /\ UNCHANGED <<BRAND, formValues, fpos, fillLog, skipChecked, stillUnchecked,
                   mainVars, raceVars, cardVars, runnerVars>>

NextFill ==
    FieldSkipped \/ FieldFilled \/ FieldRejected \/ BoxRead \/ BoxClick \/ BoxReread
        \/ BoxForce

SpecFill == InitFill /\ [][NextFill]_vars

(***************************************************************************)
(* writeStatusToExcel on its own: calls with any row index and value.       *)
(***************************************************************************)
\* the values handed over as statusValue
WriteValues == {EMPTY, V_ok, V_okPadded}

\* the sheets of the runs, and one with two header cells that match 'status'
WriteSheets ==
    Sheets \cup {[hdr |-> <<K_StatuS, K_CVV, K_STATUS>>,
                  data |-> << <<V_blank, V_123, V_ok>> >>]}

InitWrite ==
    /\ sheet \in WriteSheets
    /\ run = 1
    /\ ProcessStart(FALSE)
    /\ RaceIdle
    /\ CardIdle
    /\ FillIdle
    /\ RunnerIdle

\* writeStatusToExcel(filePath, i, v); idx, statusText and written keep the
\* arguments of the last call and the row indices written so far
WriteCall ==
    /\ \E i \in 0..MaxRows, v \in WriteValues :
          /\ i \notin written
          /\ idx' = i
          /\ statusText' = v
          /\ sheet' = writeStatusToExcel(sheet, i, v)
          /\ written' = written \cup {i}
    /\ UNCHANGED <<run, REVIEW_MODE, pc, browser, pageUsed, exitCode, firstStage, rows, clock, start,
                   polled, wstLog, outcome, touched, submitted, thrown, rowVars, idleVars>>

SpecWrite == InitWrite /\ [][WriteCall]_vars

(***************************************************************************)
(* Properties of the row loop.                                              *)
(***************************************************************************)
\* the positions of main() inside the processing of rows[idx]
RowPcs ==
    {"nav_wait_link", "nav_click_tx", "nav_race_link", "nav_click_new", "nav_race_page",
     "nav_confirm", "nav_fallback", "guard", "critical_wait", "critical_retry",
     "secondary_wait", "fill", "filled", "paused", "submit", "submit_race",
     "confirm_result", "ready_wait", "wst_poll", "wst_sleep", "wst_returned",
     "persist", "return_wait", "return_click", "return_race"}

\* the cells of data row r that were there when the run read the file are
\* still what the run read
RowAsRead(r) ==
    /\ r <= Len(sheet.data)
    /\ \A c \in 1..Len(rows[r]) :
          /\ sheet.hdr[c] = rows[r][c][1]
          /\ sheet.data[r][c] = rows[r][c][2]

C2_NoSubmissionWithStoredStatus ==
    pc = "submit_race" /\ idx \in submitted => trim(storedStatus(sheet, idx + 1)) = EMPTY

\* the CVV condition of the claims: the value found under CVV, Security Code
\* or CVV2, stripped to digits, has fewer than 3 characters
ShortCvv(r) == Len(stripNonDigits(valueByHeaders(rows[r], CVV_HEADERS))) < 3

\* C3 as stated: a record with a short CVV is never navigated to nor
\* submitted, and a record is SkippedInvalid exactly if its CVV is short.
C3_Original ==
    \A r \in 1..Len(rows) :
        /\ ShortCvv(r) => (r - 1) \notin touched /\ (r - 1) \notin submitted
        /\ outcome[r] # "pending" => (outcome[r] = "skippedInvalid" <=> ShortCvv(r))

\* C3, amended: a record with a short CVV is never navigated to nor
\* submitted, and a record is SkippedInvalid exactly if its CVV is short and
\* its status is empty (with a status it is SkippedStatus).
C3_SkippedInvalidIffShortCvvAndNoStatus ==
    /\ \A r \in 1..Len(rows) :
          /\ ShortCvv(r) => (r - 1) \notin touched /\ (r - 1) \notin submitted
          /\ outcome[r] # "pending" =>
                (outcome[r] = "skippedInvalid"
                    <=> ShortCvv(r) /\ statusCell(rows[r]) = EMPTY)
    /\ pc \in RowPcs => ~ShortCvv(idx + 1)

\* one record skipped for its CVV, another with a short CVV skipped for its status
C3_Witness ==
    /\ \E r \in 1..Len(rows) : outcome[r] = "skippedInvalid" /\ (r - 1) \notin touched
    /\ \E r \in 1..Len(rows) : outcome[r] = "skippedStatus" /\ ShortCvv(r)

(***************************************************************************)
(* Properties of raceStages.                                                *)
(***************************************************************************)
StageNameSet == {stages[i].name : i \in 1..Len(stages)}

\* C4: when the condition of one stage holds first, before the deadline,
\* raceStages resolves to the name of that stage on the same frame, without
\* waiting for the conditions or the timeouts of the other stages; the value
\* it settled with never changes.
C4_FirstStageWins ==
    firstTrue.name \in StageNameSet /\ firstTrue.at < RaceTimeout =>
        /\ raceResult.value \in {"pending", firstTrue.name}
        /\ raceResult.value = "pending" => elapsed = firstTrue.at
        /\ raceResult.value # "pending" => raceResult.at = firstTrue.at

\* B's condition held first: the race has resolved to "B" while the watcher
\* of A is still pending on a condition that does not hold
C4_Witness ==
    /\ Len(stages) >= 2
    /\ firstTrue.name = "B"
    /\ raceResult.value = "B"
    /\ watcher[1] = "pending"
    /\ ~cond[1]

\* C5: when no condition has held, raceStages does not name a stage: it
\* settles only by the timeout error, not before the deadline and at most
\* one timer lateness after it.
C5_TimeoutAtDeadline ==
    firstTrue.name = "none" /\ raceResult.value # "pending" =>
        /\ raceResult.value = "TimeoutError"
        /\ raceResult.at >= RaceTimeout
        /\ raceResult.at <= RaceTimeout + TimerLateness

\* no condition ever held and the race of two stages failed with the timeout
C5_Witness ==
    /\ Len(stages) >= 2
    /\ firstTrue.name = "none"
    /\ raceResult.value = "TimeoutError"
    /\ \A i \in 1..Len(stages) : watcher[i] = "rejected"

(***************************************************************************)
(* Properties of the status capture.                                        *)
(***************************************************************************)
\* C6: waitForStatusText sleeps and polls again only after a poll that read
\* nothing; it returns the text of the first poll that read one, which is not
\* empty; and it ends by the timeout only after a poll that read nothing
\* later than the deadline.
C6_PollerResult ==
    /\ pc = "wst_sleep" =>
          polled = EMPTY /\ clock - start <= STATUS_WAIT_TIMEOUT_MS
    /\ pc = "wst_returned" /\ lastCall.result = "text" =>
          lastCall.value = polled /\ polled # EMPTY
    /\ pc = "wst_returned" /\ lastCall.result = "timeout" =>
          polled = EMPTY /\ clock - start > STATUS_WAIT_TIMEOUT_MS
    /\ \A k \in 1..Len(wstLog) :
          wstLog[k].result = "text" => wstLog[k].value # EMPTY /\ k = Len(wstLog)

\* a text read after the deadline of the call had passed is still returned
C6_Witness ==
    /\ pc = "wst_returned"
    /\ lastCall.result = "text"
    /\ lastCall.value = V_ok
    /\ clock - start > STATUS_WAIT_TIMEOUT_MS

\* waitForStatusText is running
Polling == pc \in {"wst_poll", "wst_sleep"}

\* C7: per record waitForStatusText is invoked at most twice; the second
\* invocation exists only after the first one timed out, starts at least the
\* sleep of 2000 ms after that, and times out only after its own full
\* timeout, counted from its own start.
C7_AtMostTwoCalls ==
    /\ [](/\ Len(wstLog) <= 2
          /\ Polling => Len(wstLog) <= 1
          /\ Len(wstLog) = 2 \/ (Polling /\ Len(wstLog) = 1) =>
                wstLog[1].result = "timeout"
          /\ pc = "wst_returned" /\ lastCall.result = "timeout" =>
                clock - start > STATUS_WAIT_TIMEOUT_MS)
    /\ [][pc = "wst_returned" /\ pc' = "wst_poll" =>
            /\ Len(wstLog) = 1
            /\ clock' >= clock + RETRY_SLEEP
            /\ start' = clock']_vars

\* both invocations were made and both timed out
C7_Witness ==
    /\ pc = "wst_returned"
    /\ Len(wstLog) = 2
    /\ wstLog[1].result = "timeout"
    /\ wstLog[2].result = "timeout"

\* both invocations of the current record timed out
BothTimedOut ==
    /\ Len(wstLog) = 2
    /\ wstLog[1].result = "timeout"
    /\ wstLog[2].result = "timeout"

\* the two-attempt policy has finished
CaptureOver ==
    /\ pc = "wst_returned"
    /\ lastCall.result = "text" \/ Len(wstLog) = 2

\* C8: when the two-attempt policy has finished, the next step of the record
\* is Persisted, with the text an attempt returned, or with the empty string
\* when both attempts timed out.
C8_CaptureAlwaysPersists ==
    [][CaptureOver =>
          /\ pc' = "persist"
          /\ statusText' = IF lastCall.result = "text" THEN lastCall.value ELSE EMPTY]_vars

\* the record is at Persisted with the empty string after two timeouts
C8_Witness ==
    /\ pc = "persist"
    /\ BothTimedOut
    /\ statusText = EMPTY

\* C9 as stated: after both attempts timed out the record is Failed and the
\* run goes to its end without persisting.
C9_Original ==
    BothTimedOut /\ pc # "wst_returned" =>
        /\ pc \in {"caught", "finally", "exited"}
        /\ outcome[idx + 1] = "failed"

\* C9, amended: when both attempts time out the error is swallowed; the
\* record is not Failed and the run is not ended by it: the record goes on to
\* Persisted with the empty string.
C9_BothTimeoutsSwallowed ==
    [][BothTimedOut /\ pc = "wst_returned" =>
          /\ pc' = "persist"
          /\ statusText' = EMPTY
          /\ outcome' = outcome
          /\ outcome[idx + 1] = "pending"
          /\ exitCode' = 0]_vars

\* after two timeouts the empty string was written and the run went on to
\* the return step
C9_Witness ==
    /\ pc = "return_wait"
    /\ BothTimedOut
    /\ idx \in written
    /\ outcome[idx + 1] = "pending"

\* the column writeStatusToExcel writes to
StatusColOf(sh) == IF statusCols(sh) = {} THEN Len(sh.hdr) + 1 ELSE Min(statusCols(sh))

SubmitPcs ==
    {"submit", "submit_race", "confirm_result", "ready_wait", "wst_poll", "wst_sleep",
     "wst_returned", "persist", "return_wait", "return_click", "return_race"}

\* the positions of main() after an error left the try block
AbortPcs == {"caught", "finally", "exited"}

\* record r is one the run would process: no status, CVV long enough
Processable(r) == ~hasStatus(rows[r]) /\ ~cvvTooShort(rows[r])

\* the records after the current one are pending and nothing was done for them
LaterUntouched ==
    \A r \in (idx + 2)..Len(rows) :
        /\ outcome[r] = "pending"
        /\ (r - 1) \notin (touched \cup submitted \cup written)

\* C11: in review mode, once the fill of the first record that is not
\* skipped completes, main() suspends for good: in that run it never submits
\* a form, never polls for a result, never writes to the store and never
\* starts a later record; only the end of the process leaves the pause.
C11_ReviewSuspends ==
    /\ [](REVIEW_MODE =>
            /\ submitted = {}
            /\ written = {}
            /\ wstLog = <<>>
            /\ pc \notin SubmitPcs
            /\ touched \subseteq {idx}
            /\ pc = "paused" => outcome[idx + 1] = "paused" /\ LaterUntouched)
    /\ [][REVIEW_MODE /\ pc = "filled" => pc' = "paused" /\ idx' = idx]_vars
    /\ [][REVIEW_MODE /\ run' = run => sheet' = sheet]_vars
    /\ [][pc = "paused" => run' = run + 1 /\ pc' = "launch"]_vars

\* a review run paused on its first record while the next record, which it
\* would process, has not been started
C11_Witness ==
    /\ pc = "paused"
    /\ REVIEW_MODE
    /\ fieldTouched
    /\ idx + 2 <= Len(rows)
    /\ Processable(idx + 2)
    /\ outcome[idx + 2] = "pending"

\* C12: an error that no call site handles, raised at any step of any
\* record, ends the row loop: that record is Failed, and no later record is
\* navigated to, filled, submitted or written in that run; the run only
\* closes the browser and exits.
C12_FailFast ==
    /\ [](thrown # "none" =>
            /\ pc \in AbortPcs
            /\ outcome # <<>> =>
                  /\ idx < Len(rows)
                  /\ outcome[idx + 1] = "failed"
                  /\ LaterUntouched)
    /\ [](pc \in AbortPcs /\ exitCode = 1 => thrown # "none")
    /\ [][thrown # "none" /\ run' = run =>
            UNCHANGED <<sheet, rows, idx, outcome, touched, submitted, written>>]_vars

\* the fill of the first record failed and the run has exited without
\* starting the second record, which it would have processed
C12_Witness ==
    /\ pc = "exited"
    /\ thrown = "fill"
    /\ idx = 0
    /\ Len(rows) = 2
    /\ Processable(2)
    /\ outcome = <<"failed", "pending">>
    /\ touched = {0}

\* C13: records are processed one at a time in file order: every record
\* before the current one has a terminal outcome, nothing has been done for
\* any record after it, the loop index only ever moves to the next record,
\* and a step acts on the page or the store for the current record only.
C13_OneAtATimeInOrder ==
    /\ [](outcome # <<>> =>
            /\ idx <= Len(rows)
            /\ \A r \in 1..Len(rows) :
                  r < idx + 1 =>
                      outcome[r] \in {"skippedStatus", "skippedInvalid", "completed"}
            /\ LaterUntouched
            /\ pc \in RowPcs => idx < Len(rows))
    /\ [][outcome # <<>> /\ run' = run =>
            /\ idx' \in {idx, idx + 1}
            /\ idx' = idx + 1 => outcome'[idx + 1] # "pending" /\ pc' = "loop"
            /\ (touched' \ touched) \subseteq {idx}
            /\ (submitted' \ submitted) \subseteq {idx}
            /\ (written' \ written) \subseteq {idx}
            /\ sheet' # sheet =>
                  \A r \in 1..Len(sheet.data) :
                      storedStatus(sheet', r) # storedStatus(sheet, r) => r = idx + 1]_vars

\* the second record is being filled after the first one was completed and
\* written
C13_Witness ==
    /\ pc = "fill"
    /\ idx = 1
    /\ outcome[1] = "completed"
    /\ touched = {0, 1}
    /\ written = {0}

\* the outcomes of a record that was dealt with and did not fail
GoodOutcomes == {"skippedStatus", "skippedInvalid", "completed"}

\* C14: when main() exits on its own, the exit code is 0 exactly if the
\* rows were read and every record was skipped or completed and returned,
\* and it is 1 exactly if an unhandled error ended the run, be it in a
\* record, at launch, at login or at reading the file.
C14_ExitCode ==
    pc = "exited" =>
        /\ exitCode \in {0, 1}
        /\ exitCode = 0 <=>
              /\ outcome # <<>>
              /\ \A r \in 1..Len(rows) : outcome[r] \in GoodOutcomes
        /\ exitCode = 1 <=> thrown # "none"
        /\ thrown # "none" /\ outcome # <<>> => outcome[idx + 1] = "failed"

\* a run that exited with 1 after completing one record and failing in the
\* submission of the next
C14_Witness ==
    /\ pc = "exited"
    /\ exitCode = 1
    /\ thrown = "submit"
    /\ outcome = <<"completed", "failed">>

\* C15 as stated: every record has at most one outcome, the records
\* reached have exactly one, and the store is written only for a record
\* submitted in auto-submit mode, at most once per run: never for a
\* skipped, paused or failed record.
C15_WriteOnlyForCompleted ==
    outcome # <<>> =>
        /\ \A r \in 1..Len(rows) :
              /\ outcome[r] \in Outcomes
              /\ r < idx + 1 => outcome[r] # "pending"
        /\ \A i \in written :
              /\ ~REVIEW_MODE
              /\ i \in submitted
              /\ outcome[i + 1] \in {"pending", "completed"}

\* the row as the run read it is still in the store, status included
StatusAsRead(r) == RowAsRead(r) /\ storedStatus(sheet, r) = statusCell(rows[r])

\* C16: when the result page is not confirmed after the submission (the
\* race of navigation and result marker does not settle the matter and the
\* wait for the result page times out), the error ends the run with failure
\* and no status is written for the submitted record.
C16_UnconfirmedResultFails ==
    /\ [](thrown = "confirm_result" =>
            /\ pc \in AbortPcs
            /\ idx \in submitted
            /\ idx \notin written
            /\ wstLog = <<>>
            /\ outcome[idx + 1] = "failed"
            /\ LaterUntouched
            /\ pc \in {"finally", "exited"} => exitCode = 1)
    /\ [][(pc = "confirm_result" \/ thrown = "confirm_result") /\ run' = run =>
            sheet' = sheet /\ written' = written]_vars

\* the run exited with 1 after the result page of the first record was not
\* confirmed; nothing was written and the second record was not started
C16_Witness ==
    /\ pc = "exited"
    /\ exitCode = 1
    /\ thrown = "confirm_result"
    /\ submitted = {0}
    /\ written = {}
    /\ StatusAsRead(1)
    /\ Len(rows) = 2
    /\ Processable(2)

(***************************************************************************)
(* Properties of the preparation of the form.                               *)
(***************************************************************************)
\* the positions of main() from the fill of rows[idx] on
FillPcs == {"fill", "filled", "paused"} \cup SubmitPcs

C19_CriticalWaitTwice ==
    /\ [](/\ Len(mwait) <= 2
          /\ Len(mwait) = 2 => mwait[1] = "timeout"
          /\ pc = "critical_retry" => mwait = <<"timeout">>
          /\ pc \in {"secondary_wait", "fill"} =>
                mwait # <<>> /\ mwait[Len(mwait)] = "ok")
    /\ [](thrown = "critical_retry" =>
            /\ mwait = <<"timeout", "timeout">>
            /\ ~fieldTouched
            /\ pc \in AbortPcs
            /\ outcome[idx + 1] = "failed"
            /\ pc \in {"finally", "exited"} => exitCode = 1)
    /\ [][Len(mwait) = 2 /\ run' = run /\ idx' = idx /\ pc' # "filled" /\ pc' # "caught" =>
            mwait' = mwait]_vars
    /\ [][fieldTouched' /\ ~fieldTouched =>
            pc = "fill" /\ mwait # <<>> /\ mwait[Len(mwait)] = "ok"]_vars

\* the first wait failed, the second one succeeded, and the fill is about to
\* start
C19_Witness ==
    /\ pc = "fill"
    /\ mwait = <<"timeout", "ok">>
    /\ ~fieldTouched

\* C20 as stated: a failure of the return to the transactions list after
\* the write (the link does not appear within its wait, or both clicks
\* fail) does not fail the record or end the run: main() goes on to the
\* next record.
C20_ReturnFailureTolerated ==
    [][(pc = "return_wait" \/ pc = "return_click") =>
          /\ pc' \in {"return_click", "return_race"}
          /\ outcome'[idx + 1] # "failed"
          /\ thrown' = "none"]_vars

(***************************************************************************)
(* Properties of the card-number block.                                     *)
(***************************************************************************)
IsPrefix(a, b) == Len(a) <= Len(b) /\ SubSeq(b, 1, Len(a)) = a

\* the digit string the block expects in the input
Expected == expectedDigits(first4Raw, last12Raw)

\* C17: when the value read back after typing holds, as digits, only a
\* proper prefix of the expected digit string, exactly the missing suffix is
\* typed, once, and with those keystrokes the input's digits are the whole
\* expected string; when it holds all expected digits nothing more is typed.
C17_ReadBackCorrection ==
    /\ Len(typings) <= 2
    /\ cpc \in {"done", "done_rejected"} /\ typed.ok =>
          /\ IsPrefix(stripNonDigits(typed.value), Expected)
                /\ stripNonDigits(typed.value) # Expected =>
                  /\ Len(typings) = 2
                  /\ typings[2] = sliceFrom(Expected, Len(stripNonDigits(typed.value)))
                  /\ stripNonDigits(typed.value) \o typings[2] = Expected
                  /\ cpc = "done" => stripNonDigits(field) = Expected
          /\ stripNonDigits(typed.value) = Expected =>
                Len(typings) = 1 /\ field = typed.value

\* the input held the first 4 of 16 expected digits, the other 12 were
\* typed and the input now holds all 16
C17_Witness ==
    /\ cpc = "done"
    /\ typed = [ok |-> TRUE, value |-> DigitRun(4)]
    /\ Len(Expected) = 16
    /\ typings = <<Expected, sliceFrom(Expected, 4)>>
    /\ field = Expected

(***************************************************************************)
(* Properties of the navigation and of the fill.                            *)
(***************************************************************************)
\* the steps of goToNewTransaction up to the click on the new-transaction link
NavLinkSteps == {"nav_wait_link", "nav_click_tx", "nav_race_link", "nav_click_new"}

\* C21 as stated: a Timeout or NotFound raised while waiting for the
\* transactions link, clicking it, waiting for or clicking the
\* new-transaction link, or in a best-effort step of the fill, is swallowed:
\* it never leaves the try block of main() and never fails the record.
C21_NavigationErrorsSwallowed ==
    /\ thrown \notin NavLinkSteps \cup {"secondary_wait"}
    /\ pc \in NavLinkSteps \cup {"nav_race_page", "secondary_wait", "fill"} =>
          outcome[idx + 1] = "pending"

\* the field blocks are over and the fill is at the checkbox
AtCheckbox == fpos > Len(FieldOrder)

\* C22 as stated (checkbox part): an error raised while reading, clicking
\* or forcing the fraud-check checkbox never aborts the fill.
C22_CorrectionsNeverAbort ==
    AtCheckbox => fpc # "failed"

\* the fields of the log, in order
fieldsOf(log) == [i \in 1..Len(log) |-> log[i].field]

\* the number of blocks whose condition the fill has evaluated
passed ==
    IF fpc = "fields" THEN fpos - 1
    ELSE IF fpc = "failed" /\ ~AtCheckbox THEN fpos
    ELSE Len(FieldOrder)

\* the fields of the record and the brand for which the claim expects page calls
Wanted(f) ==
    IF f \in {"merchantAccount", "amount", "orderId", "customerFirstName", "cardNumber",
              "expirationDate", "cvv"}
    THEN formValues[f] # EMPTY
    ELSE IF f \in {"billingStreet", "billingRegion"} THEN BRAND = "agoda"
    ELSE TRUE

\* C25: the fields get their page calls in the fixed order merchant account,
\* amount, order id, customer first name, cardholder name, card number,
\* expiration, CVV, postal code (then the billing name, street, region,
\* company and country); a record-mapped field is touched if and only if
\* the value derived from the record for it is not empty, cardholder name
\* and postal code are always typed with the constants of the brand, and
\* street and region are touched if and only if the brand is agoda.  At any
\* moment the touched fields are exactly those of the blocks gone through.
C25_FieldOrderAndConditions ==
    /\ fpc # "idle" =>
          fieldsOf(fillLog) = SelectSeq(SubSeq(FieldOrder, 1, passed), Wanted)
    /\ SubSeq(FieldOrder, 1, 9) =
          <<"merchantAccount", "amount", "orderId", "customerFirstName",
            "cardholderName", "cardNumber", "expirationDate", "cvv", "billingPostalCode">>
    /\ \A i \in 1..Len(fillLog) :
          /\ fillLog[i].field = "cardholderName" =>
                fillLog[i].value = (IF BRAND = "agoda" THEN "Agoda Ltd." ELSE "BOOKING.COM")
          /\ fillLog[i].field = "billingPostalCode" =>
                fillLog[i].value = (IF BRAND = "agoda" THEN "80525" ELSE "10118")
          /\ fillLog[i].field \in {"merchantAccount", "amount", "orderId",
                                   "customerFirstName", "cardNumber", "expirationDate",
                                   "cvv"} =>
                fillLog[i].value = formValues[fillLog[i].field]
          /\ fillLog[i].field \in {"billingStreet", "billingRegion"} => BRAND = "agoda"

\* an agoda record without amount and card number, filled to the end: every
\* other field was typed, street and region included
C25_Witness ==
    /\ fpc = "done"
    /\ BRAND = "agoda"
    /\ formValues.amount = EMPTY
    /\ formValues.cardNumber = EMPTY
    /\ formValues.expirationDate = <<"1", "2", "/", "3", "0">>
    /\ fieldsOf(fillLog) =
          <<"merchantAccount", "orderId", "customerFirstName", "cardholderName",
            "expirationDate", "cvv", "billingPostalCode", "billingFirstName",
            "billingStreet", "billingRegion", "billingCompany", "billingCountryName">>
    /\ \A i \in 1..Len(fillLog) : fillLog[i].typed

\* C28: when the checkbox step has ended and the checkbox exists, it is
\* checked: a box not read as checked is clicked and read again, and only
\* when that read does not give checked it is set programmatically; a box
\* read as checked gets no click and no programmatic set and stays checked.
C28_CheckboxEndsChecked ==
    /\ fpc = "done" /\ box # "absent" => box = "checked"
    /\ boxOps \in {<<>>, <<"click">>, <<"click", "force">>}
    /\ skipChecked => boxOps = <<>> /\ box = "checked" /\ fpc = "done"
    /\ fpc = "done" /\ ~skipChecked => boxOps # <<>>
    /\ boxOps = <<"click", "force">> => ~skipChecked /\ ~stillUnchecked
    /\ fpc = "done" /\ boxOps = <<"click">> => stillUnchecked /\ box = "checked"

\* the click left the box unchecked, the second read said so, and the
\* programmatic set checked it
C28_Witness ==
    /\ fpc = "done"
    /\ box = "checked"
    /\ boxOps = <<"click", "force">>
    /\ ~skipChecked
    /\ ~stillUnchecked

\* the positions of main() between the confirmation of the new-transaction
\* page of rows[idx] and the start of its fill
PreFillPcs == {"guard", "critical_wait", "critical_retry", "secondary_wait", "fill"}

\* the positions of main() inside goToNewTransaction
NavPcs ==
    {"nav_wait_link", "nav_click_tx", "nav_race_link", "nav_click_new", "nav_race_page",
     "nav_confirm", "nav_fallback"}

C24_FillAfterStageConfirmed ==
    /\ [](pc \in PreFillPcs => confirmed \in {"body", "heading"})
    /\ [](pc \in NavPcs => confirmed = "none" /\ ~fieldTouched)
    /\ [][fieldTouched' /\ ~fieldTouched =>
             pc = "fill" /\ confirmed \in {"body", "heading"}]_vars
    /\ [][confirmed' # "none" /\ confirmed = "none" =>
             /\ pc \in {"nav_confirm", "nav_fallback"}
             /\ pc' = "guard"
             /\ confirmed' = (IF pc = "nav_confirm" THEN "body" ELSE "heading")]_vars
    /\ [](thrown = "nav_fallback" =>
             /\ pc \in AbortPcs
             /\ ~fieldTouched
             /\ outcome[idx + 1] = "failed"
             /\ idx \notin submitted
             /\ pc = "exited" => exitCode = 1)

\* the body marker did not appear, the heading confirmed the page, and the
\* fill of the record is about to start
C24_Witness ==
    /\ pc = "fill"
    /\ confirmed = "heading"
    /\ guard
    /\ ~fieldTouched

(***************************************************************************)
(* Properties of writeStatusToExcel and of buildCardNumber.                 *)
(***************************************************************************)
\* the cell of data row r and column c of sh, '' where the sheet has none
CellOf(sh, r, c) ==
    IF r <= Len(sh.data) /\ c <= Len(sh.hdr) THEN sh.data[r][c] ELSE EMPTY

\* C26: writeStatusToExcel(i, v) puts v into the status cell of data row i
\* (header row + 1 + i) and changes no other cell; when no header cell is
\* 'status' after trimming and lower-casing, it appends one header cell
\* 'STATUS' in the column after the last used one and writes there;
\* otherwise the header is unchanged and the first matching column is used.
C26_WriteFrame ==
    [][sheet' # sheet \/ written' # written =>
          LET i     == idx'
              found == \E c \in 1..Len(sheet.hdr) :
                          toLowerCase(trim(sheet.hdr[c])) = <<"s", "t", "a", "t", "u", "s">>
              col   == IF found
                       THEN Min({c \in 1..Len(sheet.hdr) :
                                   toLowerCase(trim(sheet.hdr[c])) =
                                       <<"s", "t", "a", "t", "u", "s">>})
                       ELSE Len(sheet.hdr) + 1
          IN  /\ sheet'.hdr = IF found THEN sheet.hdr
                              ELSE sheet.hdr \o << <<"S", "T", "A", "T", "U", "S">> >>
              /\ Len(sheet'.data) = Max({Len(sheet.data), i + 1})
              /\ \A r \in 1..Len(sheet'.data) : Len(sheet'.data[r]) = Len(sheet'.hdr)
              /\ sheet'.data[i + 1][col] = statusText'
              /\ \A r \in 1..Len(sheet'.data) : \A c \in 1..Len(sheet'.hdr) :
                    <<r, c>> # <<i + 1, col>> => sheet'.data[r][c] = CellOf(sheet, r, c)]_vars

\* a sheet without status header got the STATUS column with the write for
\* its second record, whose CVV cell and the first record's cells are as before
C26_Witness ==
    /\ pc = "launch"
    /\ written = {1}
    /\ idx = 1
    /\ statusText = V_ok
    /\ sheet = [hdr |-> <<K_CVV, K_STATUS>>,
                data |-> << <<V_12, EMPTY>>, <<V_123, V_ok>> >>]

\* C27: the card number typed into the form is the first-4 fragment
\* stripped to digits and cut to 4, followed by the last-12 fragment stripped
\* to digits and cut to 12: only digits, at most 16 of them, and equal to
\* buildCardNumber(first4, last12) for the fragments of the record.
C27_CardNumberDerivation ==
    cpc # "idle" =>
        LET n == cardNumber(first4Raw, last12Raw)
        IN  /\ n = sliceTo(stripNonDigits(first4Raw), 4) \o sliceTo(stripNonDigits(last12Raw), 12)
            /\ n = buildCardNumber(first4Raw, last12Raw)
            /\ \A i \in 1..Len(n) : n[i] \in Digits
            /\ Len(n) <= 16
            /\ typings # <<>> => typings[1] = n

\* fragments of 5 and 13 digits with a blank: the 16 digits typed are the
\* first 4 of the one and the first 12 of the other
C27_Witness ==
    /\ cpc = "read_back"
    /\ first4Raw = DigitRun(5)
    /\ last12Raw = <<" ">> \o DigitRun(13)
    /\ typings = <<DigitRun(4) \o DigitRun(12)>>

(***************************************************************************)
(* End-to-end scenarios over a single record.                               *)
(***************************************************************************)
\* the file holds one record, without status, whose CVV has the two digits 12
SingleShortCvv ==
    /\ Len(sheet.data) = 1
    /\ rows # <<>> => stripNonDigits(valueByHeaders(rows[1], CVV_HEADERS)) = <<"1", "2">>
    /\ \A c \in 1..Len(sheet.hdr) :
          /\ sheet.hdr[c] = K_CVV => stripNonDigits(sheet.data[1][c]) = <<"1", "2">>
          /\ sheet.hdr[c] # K_CVV => sheet.data[1][c] = EMPTY
    /\ \E c \in 1..Len(sheet.hdr) : sheet.hdr[c] = K_CVV

\* C30 as stated: over a single record whose CVV is 12 the run produces
\* SkippedInvalid, issues no call at all on the remote document, and writes
\* nothing to the store.
C30_Original ==
    run = 1 /\ SingleShortCvv =>
        /\ ~pageUsed
        /\ touched = {}
        /\ written = {}
        /\ outcome \in {<<>>, <<"pending">>, <<"skippedInvalid">>}

\* C30: over a single record whose CVV is 12 the run produces SkippedInvalid
\* for the record and issues no page call for it (no navigation, no fill,
\* no submission), writes nothing to the store and leaves its status empty;
\* the only calls on the remote document are those of the login and the
\* dashboard detection, which come before the records are read.
C30_SkippedInvalidNoRecordCalls ==
    /\ [](run = 1 /\ SingleShortCvv =>
             /\ touched = {}
             /\ submitted = {}
             /\ written = {}
             /\ ~fieldTouched
             /\ outcome \in {<<>>, <<"pending">>, <<"skippedInvalid">>}
             /\ storedStatus(sheet, 1) = EMPTY
             /\ pc \notin NavPcs \cup PreFillPcs \cup FillPcs
             /\ rows # <<>> => pageUsed
             /\ pc = "exited" /\ thrown = "none" =>
                   outcome = <<"skippedInvalid">> /\ exitCode = 0)
    /\ [][run = 1 /\ SingleShortCvv => sheet' = sheet]_vars
    /\ [][pageUsed' # pageUsed /\ run' = run => pc = "goto" /\ rows = <<>>]_vars

\* the run over the single record with CVV 12 has ended: the record was
\* skipped as invalid, after the login page had been opened
C30_Witness ==
    /\ run = 1
    /\ SingleShortCvv
    /\ pc = "exited"
    /\ exitCode = 0
    /\ outcome = <<"skippedInvalid">>
    /\ pageUsed
    /\ touched = {}

\* the store holds a STATUS column created after the CVV column, with a
\* non-empty text for the single record
StatusColumnCreated ==
    /\ Len(sheet.hdr) = 2
    /\ sheet.hdr[2] = K_STATUS
    /\ sheet.data[1][1] = V_123
    /\ sheet.data[1][2] # EMPTY

\* C29: in auto-submit mode, over a single valid record without status and
\* with the remote application answering within every deadline, the first
\* run reaches the result stage, from there captures a non-empty status
\* text, writes it under a newly created STATUS column in the record's row,
\* returns to the transactions list, and then exits with code 0; it never
\* exits before all of that.
C29_EndToEnd ==
    /\ (run = 1 /\ pc = "launch") ~> (run = 1 /\ pc = "ready_wait" /\ 0 \in submitted)
    /\ (run = 1 /\ pc = "ready_wait") ~>
           (run = 1 /\ pc = "persist" /\ statusText # EMPTY /\ written = {})
    /\ (run = 1 /\ pc = "persist") ~>
           (run = 1 /\ pc = "return_wait" /\ written = {0} /\ StatusColumnCreated
               /\ sheet.data[1][2] = statusText)
    /\ (run = 1 /\ pc = "return_wait") ~>
           (run = 1 /\ pc = "loop" /\ idx = 1 /\ outcome = <<"completed">>)
    /\ (run = 1 /\ pc = "loop" /\ idx = 1) ~>
           (run = 1 /\ pc = "exited" /\ exitCode = 0 /\ StatusColumnCreated)
    /\ [](run = 1 /\ pc \in {"finally", "exited"} =>
             /\ exitCode = 0
             /\ thrown = "none"
             /\ outcome = <<"completed">>
             /\ written = {0}
             /\ StatusColumnCreated)
    /\ [](run = 1 /\ pc \notin {"finally", "exited"} => exitCode = 0 /\ browser # "closed")

\* the first run has ended with code 0 and the file holds the status ok in
\* the new STATUS column of the record
C29_Witness ==
    /\ run = 1
    /\ pc = "exited"
    /\ exitCode = 0
    /\ outcome = <<"completed">>
    /\ sheet = [hdr |-> <<K_CVV, K_STATUS>>, data |-> << <<V_123, V_ok>> >>]


(***************************************************************************)
(* C31: the dashboard stage is confirmed before any record is read.         *)
(***************************************************************************)
\* the steps of main() before the dashboard is confirmed
LoginPcs == {"launch", "goto", "login_wait", "post_login", "otp_confirm", "otp_wait"}

\* the bounded waits of the login sequence
LoginWaits == {"login_wait", "post_login", "otp_wait"}

\* no record of the run has been read, navigated to, submitted or written
NoRecordProcessed ==
    /\ rows = <<>>
    /\ outcome = <<>>
    /\ touched = {}
    /\ submitted = {}
    /\ written = {}

\* C31: the login page is detected before the race of OTP against dashboard
\* starts; the store is read only after the race named the dashboard or, when
\* the OTP page won, after the wait for the dashboard that follows it; until
\* then no record is read or processed, and a timeout of one of these waits
\* ends the run with exit code 1 and no record processed.
C31_DashboardBeforeRecords ==
    /\ [](pc \in LoginPcs => NoRecordProcessed)
    /\ [](thrown \in LoginWaits => NoRecordProcessed /\ pc \in {"caught", "finally", "exited"})
    /\ [](thrown \in LoginWaits /\ pc \in {"finally", "exited"} => exitCode = 1)
    /\ [][/\ (pc' = "post_login" /\ pc # "post_login" => pc = "login_wait")
          /\ (pc' = "otp_confirm" /\ pc # "otp_confirm" =>
                 pc = "post_login" /\ firstStage' = "otp")
          /\ (pc' = "otp_wait" /\ pc # "otp_wait" => pc = "otp_confirm")
          /\ (pc' = "read_rows" /\ pc # "read_rows" =>
                 \/ pc = "post_login" /\ firstStage' = "dashboard"
                 \/ pc = "otp_wait" /\ firstStage = "otp")
          /\ (rows' # rows /\ run' = run => pc = "read_rows")
          /\ (pc \in LoginWaits /\ pc' = "caught" => thrown' = pc)]_vars

\* the OTP page won the race and the dashboard did not follow in time: the
\* run has ended with code 1 without reading the store
C31_Witness ==
    /\ pc = "exited"
    /\ thrown = "otp_wait"
    /\ exitCode = 1
    /\ pageUsed
    /\ NoRecordProcessed


(***************************************************************************)
(* C32: an auto-submit run terminates.                                      *)
(***************************************************************************)
\* the longest page.evaluate round trip of the model
MaxEvalDelay == CHOOSE d \in EvalDelays : \A e \in EvalDelays : e <= d

\* the outcomes that end the processing of a record
TerminalOutcomes == {"skippedStatus", "skippedInvalid", "completed", "failed"}

\* the steps of the row loop in which a record is being processed
InCapture == pc \in {"wst_poll", "wst_sleep", "wst_returned"}

\* C32: in auto-submit mode, when every awaited call returns or fails, the
\* run ends: the process exits, having given every record a terminal outcome
\* or having aborted on an error; the waits of a record are bounded: at most
\* two waits for the critical field, at most two calls of waitForStatusText,
\* each of which ends within its timeout plus one sleep and one round trip,
\* and the run never pauses.
C32_AutoSubmitTerminates ==
    /\ <>(pc = "exited")
    /\ [](pc = "exited" =>
             \/ thrown # "none" /\ exitCode = 1
             \/ /\ thrown = "none"
                /\ exitCode = 0
                /\ Len(outcome) = Len(sheet.data)
                /\ \A r \in 1..Len(outcome) : outcome[r] \in TerminalOutcomes)
    /\ [](pc # "paused" /\ \A r \in 1..Len(outcome) : outcome[r] # "paused")
    /\ [](Len(wstLog) <= 2 /\ Len(mwait) <= 2)
    /\ [](InCapture => clock - start <= STATUS_WAIT_TIMEOUT_MS + POLL_SLEEP + MaxEvalDelay)
    /\ [][idx' >= idx /\ idx' <= Len(rows')]_vars

\* the run has ended normally after a record whose status capture timed out
\* twice, the longest sequence of waits a record can have
C32_Witness ==
    /\ pc = "exited"
    /\ exitCode = 0
    /\ Len(outcome) = MaxRows
    /\ \E r \in 1..Len(outcome) : outcome[r] = "completed"
    /\ \E r \in 1..Len(sheet.data) : r - 1 \in written /\ storedStatus(sheet, r) = EMPTY


(***************************************************************************)
(* The command line of server.js.                                           *)
(***************************************************************************)
\* largest number of flags on a command line typed by the operator
MaxFlags == 2

Flags == {"--agoda", "--booking", "--review", "--no-review"}

\* process.argv.includes(flag)
hasFlag(argv, flag) == \E i \in 1..Len(argv) : argv[i] = flag

\* const BRAND = process.argv.includes('--agoda') ? 'agoda' : 'booking'
brandOf(argv) == IF hasFlag(argv, "--agoda") THEN "agoda" ELSE "booking"

\* const REVIEW_MODE = hasFlag('--review') || (BRAND === 'agoda' && !hasFlag('--no-review'))
reviewModeOf_mut(argv) ==
    hasFlag(argv, "--review") \/ ~hasFlag(argv, "--no-review")

reviewModeOf(argv) ==
    hasFlag(argv, "--review") \/ (brandOf(argv) = "agoda" /\ ~hasFlag(argv, "--no-review"))

\* process.argv of a child started with these arguments
argvOf(args) == <<"node">> \o args

\* a started orchestrator process, as the runner and the system see it
Child(args) == [argv |-> argvOf(args), state |-> "alive", killed |-> FALSE, signals |-> <<>>]

\* the command lines node server.js <flags>
FlagLists == UNION {[1..n -> Flags] : n \in 0..MaxFlags}

(***************************************************************************)
(* main() started from the command line with any of the flags, one run     *)
(* over a one-record file.  procs holds the one process; its fields other  *)
(* than argv are not followed here.                                         *)
(***************************************************************************)
\* one-record files: a valid record, a record with a status, a record with
\* a two-digit CVV
CliSheets ==
    {[hdr |-> <<K_CVV>>, data |-> << <<V_123>> >>],
     [hdr |-> <<K_CVV, K_STATUS>>, data |-> << <<V_123, V_ok>> >>],
     [hdr |-> <<K_CVV>>, data |-> << <<V_12>> >>]}

InitCli ==
    /\ sheet \in CliSheets
    /\ run = 1
    /\ variant = "cli"
    /\ \E flags \in FlagLists : procs = <<Child(<<"server.js">> \o flags)>>
    /\ currentChild = 0
    /\ killTimer = "undefined"
    /\ orphans = 0
    /\ res = [route |-> "none"]
    /\ ProcessStart(reviewModeOf(procs[1].argv))
    /\ BRAND = brandOf(procs[1].argv)
    /\ RaceIdle
    /\ CardIdle
    /\ formValues = <<>>
    /\ fpos = 0
    /\ fillLog = <<>>
    /\ box = "absent"
    /\ boxOps = <<>>
    /\ skipChecked = FALSE
    /\ stillUnchecked = FALSE
    /\ fpc = "idle"

NextCli == NextAuto \/ ReviewPause

SpecCli == InitCli /\ [][NextCli]_vars

(***************************************************************************)
(* The runners: runner.js (POST /start only) and the UI runner with        *)
(* /start, /stop, /status, which keeps the started child in current.        *)
(***************************************************************************)
\* largest number of processes the runner starts
MaxChildren == 2
\* largest number of pending kill timers that current.killTimer has lost
MaxOrphans == 1

R_agoda == <<"a", "g", "o", "d", "a">>

R_Agoda == <<"A", "g", "o", "d", "a">>

R_booking == <<"b", "o", "o", "k", "i", "n", "g">>

R_review == <<"r", "e", "v", "i", "e", "w">>

R_noReview == <<"n", "o", "-", "r", "e", "v", "i", "e", "w">>

R_NoReview == <<"N", "o", "-", "R", "e", "v", "i", "e", "w">>

\* a value the runner does not know
R_other == <<"x">>

\* the values of the form fields brand and review; EMPTY when the field is
\* missing or empty
BrandInputs == {EMPTY, R_Agoda, R_booking}

ReviewInputs == {EMPTY, R_review, R_NoReview, R_other}

\* a || b on strings
orElse(a, b) == IF a = EMPTY THEN b ELSE a

\* (req.body.brand || 'booking').toLowerCase()
brandField(v) == toLowerCase(orElse(v, R_booking))

\* (req.body.review || 'review').toLowerCase()
reviewField(v) == toLowerCase(orElse(v, R_review))

\* if (review === 'no-review') args.push('--no-review'); else args.push('--review')
modeFlag_mut(review) == IF review = R_review THEN "--review" ELSE "--no-review"

modeFlag(review) == IF review = R_noReview THEN "--no-review" ELSE "--review"

\* if (brand === 'agoda') args.push('--agoda'); else args.push('--booking')
brandFlag(brand) == IF brand = R_agoda THEN "--agoda" ELSE "--booking"

\* const args = [path.join(projectRoot, 'server.js')]; and the two pushes
buildArgs(brand, review) == <<"server.js", brandFlag(brand), modeFlag(review)>>

\* the request and the answer to it
Reply(route, code, error) == [route |-> route, code |-> code, error |-> error]

StartReply(code, error, brandIn, reviewIn, file) ==
    [route |-> "/start", code |-> code, error |-> error,
     brand |-> brandIn, review |-> reviewIn, file |-> file]

\* current.child && !current.child.killed
trackedAndNotKilled == currentChild # 0 /\ ~procs[currentChild].killed

\* if (current.killTimer) { clearTimeout(current.killTimer); current.killTimer = undefined; }
clearKillTimer == killTimer' = "undefined"

\* child.kill(signal): the signal is delivered, and killed set, when the
\* process still exists; SIGKILL ends it, SIGINT is left to the process
kill(p, signal) ==
    IF p.state = "alive"
    THEN [p EXCEPT !.killed = TRUE,
                   !.signals = Append(@, signal),
                   !.state = IF signal = "SIGKILL" THEN "exited" ELSE @]
    ELSE p

InitRunner ==
    /\ MainIdle
    /\ RaceIdle
    /\ CardIdle
    /\ FillIdle
    /\ variant \in {"runner.js", "ui"}
    /\ procs = <<>>
    /\ currentChild = 0
    /\ killTimer = "undefined"
    /\ orphans = 0
    /\ res = [route |-> "none"]

\* runner.js: POST /start
StartRunnerJs ==
    /\ variant = "runner.js"
    /\ Len(procs) < MaxChildren
    /\ \E brandIn \in BrandInputs, reviewIn \in ReviewInputs, file \in BOOLEAN :
          IF ~file
          THEN /\ res' = StartReply(400, "No file uploaded", brandIn, reviewIn, file)
               /\ procs' = procs
          ELSE /\ procs' = Append(procs, Child(buildArgs(brandField(brandIn), reviewField(reviewIn))))
               /\ res' = StartReply(200, "", brandIn, reviewIn, file)
    /\ UNCHANGED <<variant, currentChild, killTimer, orphans, orchestratorVars>>

\* the UI runner: POST /start
Start ==
    /\ variant = "ui"
    /\ Len(procs) < MaxChildren
    /\ \E brandIn \in BrandInputs, reviewIn \in ReviewInputs, file \in BOOLEAN :
          IF trackedAndNotKilled
          THEN /\ res' = StartReply(409, "A run is already in progress", brandIn, reviewIn, file)
               /\ UNCHANGED <<procs, currentChild, killTimer>>
          ELSE IF ~file
          THEN /\ res' = StartReply(400, "No file uploaded", brandIn, reviewIn, file)
               /\ UNCHANGED <<procs, currentChild, killTimer>>
          ELSE /\ procs' = Append(procs, Child(buildArgs(brandField(brandIn), reviewField(reviewIn))))
               /\ currentChild' = Len(procs) + 1
               /\ clearKillTimer
               /\ res' = StartReply(200, "", brandIn, reviewIn, file)
    /\ UNCHANGED <<variant, orphans, orchestratorVars>>

\* the UI runner: POST /stop
Stop ==
    /\ variant = "ui"
    /\ IF ~trackedAndNotKilled
       THEN /\ res' = Reply("/stop", 400, "No active process")
            /\ UNCHANGED <<procs, killTimer, orphans>>
       ELSE /\ killTimer = "pending" => orphans < MaxOrphans
            /\ procs' = [procs EXCEPT ![currentChild] = kill(@, "SIGINT")]
            /\ killTimer' = "pending"
            /\ orphans' = IF killTimer = "pending" THEN orphans + 1 ELSE orphans
            /\ res' = Reply("/stop", 200, "")
    /\ UNCHANGED <<variant, currentChild, orchestratorVars>>

\* the UI runner: GET /status
Status ==
    /\ variant = "ui"
    /\ res' = [route |-> "/status", code |-> 200, running |-> trackedAndNotKilled]
    /\ UNCHANGED <<variant, procs, currentChild, killTimer, orphans, orchestratorVars>>

\* the callback of the setTimeout of /stop, 7000 ms after it
\* if (current.child && !current.child.killed) current.child.kill('SIGKILL')
forceKill ==
    procs' = IF trackedAndNotKilled
             THEN [procs EXCEPT ![currentChild] = kill(@, "SIGKILL")]
             ELSE procs

KillTimerFires ==
    /\ \/ killTimer = "pending" /\ killTimer' = "fired" /\ orphans' = orphans
       \/ orphans > 0 /\ orphans' = orphans - 1 /\ killTimer' = killTimer
    /\ forceKill
    /\ UNCHANGED <<variant, currentChild, res, orchestratorVars>>

\* an orchestrator process ends: main() called process.exit, or the process
\* reacted to a SIGINT
ChildExit ==
    /\ \E i \in 1..Len(procs) :
          /\ procs[i].state = "alive"
          /\ procs' = [procs EXCEPT ![i].state = "exited"]
    /\ UNCHANGED <<variant, currentChild, killTimer, orphans, res, orchestratorVars>>

\* child.on('close', ...) of the UI runner; runner.js listens to nothing
ChildClose ==
    /\ \E i \in 1..Len(procs) :
          /\ procs[i].state = "exited"
          /\ procs' = [procs EXCEPT ![i].state = "closed"]
    /\ IF variant = "ui"
       THEN currentChild' = 0 /\ clearKillTimer
       ELSE UNCHANGED <<currentChild, killTimer>>
    /\ UNCHANGED <<variant, orphans, res, orchestratorVars>>

NextRunner ==
    \/ StartRunnerJs \/ Start \/ Stop \/ Status \/ KillTimerFires \/ ChildExit \/ ChildClose

SpecRunner == InitRunner /\ [][NextRunner]_vars


(***************************************************************************)
(* C33: mode and brand of a run.                                            *)
(***************************************************************************)
\* the flags on the command line of the process
given(flag) == \E i \in 1..Len(procs[1].argv) : procs[1].argv[i] = flag

\* C33: the run is in review mode exactly when --review is given, or --agoda
\* is given and --no-review is not; otherwise it auto-submits; the brand is
\* agoda exactly when --agoda is given; and no step of main() changes the
\* mode or the brand.
C33_ModeAndBrand ==
    /\ [](REVIEW_MODE <=> (given("--review") \/ (given("--agoda") /\ ~given("--no-review"))))
    /\ [](BRAND = "agoda" <=> given("--agoda"))
    /\ [](BRAND \in {"agoda", "booking"})
    /\ [](REVIEW_MODE => pc # "submit" /\ submitted = {})
    /\ [](~REVIEW_MODE => pc # "paused")
    /\ [][REVIEW_MODE' = REVIEW_MODE /\ BRAND' = BRAND /\ procs' = procs]_vars

\* a run started with --no-review alone is a booking run in auto-submit
\* mode: it has submitted its record and has exited
C33_Witness ==
    /\ procs[1].argv = <<"node", "server.js", "--no-review">>
    /\ ~REVIEW_MODE
    /\ BRAND = "booking"
    /\ submitted = {0}
    /\ pc = "exited"

\* an agoda run started without a mode flag pauses for review
C33_WitnessAgodaDefault ==
    /\ procs[1].argv = <<"node", "server.js", "--agoda">>
    /\ REVIEW_MODE
    /\ BRAND = "agoda"
    /\ pc = "paused"


(***************************************************************************)
(* C34 to C37: the runners.                                                 *)
(***************************************************************************)
\* the started processes that have not exited
Alive == {i \in 1..Len(procs) : procs[i].state = "alive"}

\* C34: the UI runner never has two orchestrator processes alive at once,
\* and a /start it accepted found no earlier process alive.  The code
\* violates this: /start tests child.killed, which is set as soon as a
\* signal was sent, not when the process has exited.
C34_OneProcessAtATime ==
    variant = "ui" =>
        /\ Cardinality(Alive) <= 1
        /\ (res.route = "/start" /\ res.code = 200 =>
               \A i \in 1..(Len(procs) - 1) : procs[i].state # "alive")


\* the processes a /stop has sent SIGINT to
Stopped == {i \in 1..Len(procs) : procs[i].signals # <<>> /\ procs[i].signals[1] = "SIGINT"}

\* C35: an accepted /stop sends SIGINT to the process and sets the timer,
\* and when a timer of /stop fires, 7 s later, a stopped process that is
\* still alive is killed with SIGKILL, so that it exits.  The code violates
\* the second part: the timer tests current.child.killed, which the SIGINT
\* has set already.
C35_ForceKillAfterStop ==
    [][/\ (Stop /\ res'.code = 200 /\ procs[currentChild].state = "alive" =>
              /\ procs'[currentChild].signals = <<"SIGINT">>
              /\ killTimer' = "pending")
       /\ (KillTimerFires => \A i \in Stopped : procs'[i].state # "alive")]_vars

\* C36: what the UI runner tracks matches the processes: /status reports
\* running exactly while a started process has not ended, /stop signals a
\* process whenever one is alive, and the close of one child leaves the
\* reference to another, still running child in place.  The code violates
\* each of the three after a /stop.
C36_TrackedStateMatches ==
    [][/\ (Status => (res'.running <=> \E i \in 1..Len(procs) : procs[i].state # "closed"))
       /\ (Stop /\ Alive # {} => res'.code = 200)
       /\ (ChildClose /\ variant = "ui" /\ currentChild # 0
              /\ procs'[currentChild].state = "alive" => currentChild' = currentChild)]_vars


\* a /start handler of either runner runs in this step
StartHandled == res'.route = "/start" /\ (StartRunnerJs \/ Start)

\* the handler spawned a process in this step
spawned == Len(procs') = Len(procs) + 1

\* how often the flag occurs in the arguments
count(argv, flag) == Cardinality({i \in 1..Len(argv) : argv[i] = flag})

\* what both runners do with the fields of a /start request that has a file:
\* one brand flag, --agoda for the brand agoda (in any case of the letters),
\* else --booking; one mode flag, --no-review for the review value no-review
\* (in any case), else --review; the started run auto-submits exactly when
\* --no-review was passed
FlagsFollowRequest ==
    spawned =>
        LET argv == procs'[Len(procs')].argv
        IN  /\ SubSeq(procs', 1, Len(procs)) = procs
            /\ res'.code = 200
            /\ res'.file
            /\ Len(argv) = 4
            /\ argv[3] = IF toLowerCase(res'.brand) = R_agoda THEN "--agoda" ELSE "--booking"
            /\ argv[4] = IF toLowerCase(res'.review) = R_noReview THEN "--no-review" ELSE "--review"
            /\ count(argv, "--agoda") + count(argv, "--booking") = 1
            /\ count(argv, "--review") + count(argv, "--no-review") = 1
            /\ brandOf(argv) = "agoda" <=> toLowerCase(res'.brand) = R_agoda
            /\ ~reviewModeOf(argv) <=> toLowerCase(res'.review) = R_noReview

C39_OwnSubmissionNotSuppressed ==
    submission.via \in {"form.submit", "btn.click"} => submission.sent


(***************************************************************************)
(* C38: what a run leaves in the store for a submitted record.              *)
(***************************************************************************)
\* the record as the next run over the file reads it
asNextRunReads(i) == readAllRowsFromExcel(sheet)[i + 1]

\* C38 as stated: when an auto-submit run has ended, every record it brought
\* to submission carries a non-empty status, so that the next run skips it.
\* The code stores '' after two timeouts of the capture and nothing when the
\* result page is not confirmed or the write fails.
C38_Original ==
    pc = "exited" /\ ~REVIEW_MODE => \A i \in submitted : hasStatus(asNextRunReads(i))

\* C38: the store changes for a submitted record only in the write after its
\* capture, which stores the captured text, '' when both calls of
\* waitForStatusText timed out; a run skips a record as already processed
\* exactly when the status it reads for it is not empty, and brings no such
\* record to submission.
C38_SkipFollowsStoredStatus ==
    /\ [][written' # written /\ run' = run =>
             /\ pc = "persist"
             /\ idx \in submitted
             /\ written' = written \cup {idx}
             /\ storedStatus(sheet', idx + 1) = statusText
             /\ (statusText # EMPTY <=> lastCall.result = "text")]_vars
    /\ [][sheet' # sheet => written' # written /\ run' = run]_vars
    /\ [][pc = "loop" /\ idx < Len(rows) /\ hasStatus(row) =>
             /\ pc' = "loop"
             /\ idx' = idx + 1
             /\ outcome'[idx + 1] = "skippedStatus"
             /\ submitted' = submitted]_vars
    /\ [](\A i \in submitted : ~hasStatus(rows[i + 1]))
    /\ [](\A r \in 1..Len(outcome) : outcome[r] = "skippedStatus" => hasStatus(rows[r]))

\* the second run is submitting the only record of a file that had no status
\* column: the first run submitted it too, created the column, and stored ''
\* for it, its capture having timed out twice
C38_Witness ==
    /\ run = 2
    /\ pc = "submit_race"
    /\ submitted = {0}
    /\ written = {}
    /\ sheet = [hdr |-> <<K_CVV, K_STATUS>>, data |-> << <<V_123, EMPTY>> >>]

\* the second run has skipped the only record of a file that had no status
\* column: the first run stored the captured text for it
C38_WitnessSkipped ==
    /\ run = 2
    /\ outcome = <<"skippedStatus">>
    /\ sheet = [hdr |-> <<K_CVV, K_STATUS>>, data |-> << <<V_123, V_ok>> >>]


(***************************************************************************)
(* C40: the browser is closed before the process exits.                     *)
(***************************************************************************)
\* C40: once the browser is launched the process exits by itself only
\* through the finally block, which is reached when the rows are done and
\* from the catch of every error; there browser.close() is awaited before
\* process.exit, the browser stays open until then, a rejected close leaves
\* it open, and the exit code is the one set before the close: 0 after the
\* last row, 1 after an error.
C40_CloseBeforeExit ==
    /\ [][pc' = "exited" /\ pc # "exited" =>
             \/ pc = "finally" /\ browser = "open" /\ browser' \in {"closed", "open"}
                   /\ exitCode' = exitCode
             \/ pc = "launch" /\ browser' = "none" /\ exitCode' = 1]_vars
    /\ [][pc' = "finally" /\ pc # "finally" =>
             \/ pc = "caught" /\ exitCode' = 1
             \/ pc = "loop" /\ idx >= Len(rows) /\ exitCode' = 0 /\ thrown = "none"]_vars
    /\ [][browser = "open" /\ browser' # "open" /\ run' = run =>
             pc = "finally" /\ browser' = "closed"]_vars
    /\ [](pc = "caught" => browser = "open" /\ thrown # "none")
    /\ [](pc = "exited" /\ browser # "none" => (exitCode = 0 <=> thrown = "none"))
    /\ [](pc = "exited" /\ browser = "closed" => exitCode \in {0, 1})

\* all records were processed, browser.close() failed, and the process has
\* exited with code 0 all the same
C40_Witness ==
    /\ pc = "exited"
    /\ browser = "open"
    /\ exitCode = 0
    /\ thrown = "none"
    /\ \E r \in 1..Len(outcome) : outcome[r] = "completed"

====
